---- MODULE Spec2Model ----
(***************************************************************************)
(* A model of elfdb, an interactive debugger for the "elfcode" register    *)
(* machine: the device (registers, op codes, step), the hooks              *)
(* (breakpoints), the hook parser and the control loop of the terminal.    *)
(*                                                                         *)
(* Strings are TLA+ strings; Head, Tail, Len and \o take them apart one    *)
(* character at a time, as the Rust code walks its `chars()`.              *)
(* Option<T> is a sequence: None is <<>>, Some(x) is <<x>>.                *)
(* Result<T, Error> is a record with a field `ok`.                         *)
(***************************************************************************)
EXTENDS Integers, Sequences, FiniteSets, TLC

VARIABLES
    device,       \* main.rs `device`: the Device record
    interactive,  \* Terminal.interactive
    hooks,        \* Terminal.hooks
    input,        \* Terminal.input
    last,         \* Terminal.last
    messages,     \* Terminal.messages
    keys,         \* the mpsc channel of Events: keys sent and not yet received
    pc,           \* where main.rs `run` is: "draw", "step", "exit", "fail"
    evt,          \* history: the operation the last transition performed
    tested,       \* history: the Actions the last pass over the hooks returned
    since,        \* history: step() calls and mode changes since the last pass
    log           \* history: the tests of a hook since its last reset, or the
                  \* lines last given to Device::load

vars == <<device, interactive, hooks, input, last, messages, keys, pc, evt,
          tested, since, log>>

None == <<>>
Some(x) == <<x>>

\* `let v = e;` followed by Body(v): e is evaluated once, and Body sees its value
With(e, Body(_)) == CHOOSE r \in {Body(v) : v \in {e}} : TRUE

(***************************************************************************)
(* Bounds of the model.                                                    *)
(***************************************************************************)
\* the operands of the instructions SpecDevice draws are in 0..MaxOperand
MaxOperand == 2
\* Device.count is not stepped past MaxCount (the program may loop forever)
MaxCount == 7
\* `break` is not entered with MaxHooks hooks in the list
MaxHooks == 2

\* usize is 64 bits wide; TLC's integers are 32 bits wide, so the model casts
\* to a 30 bit usize, which is still larger than every length and index here.
UsizeModulus == 2^30

\* lib.rs `as usize` of an i64 (AsReg::as_reg, and Registers::ip)
AsUsize(x) == IF x < 0 THEN UsizeModulus + x ELSE x

(***************************************************************************)
(* Strings (std): the pieces of str the program uses.                      *)
(***************************************************************************)
\* str::starts_with
StartsWith(s, p) == Len(s) >= Len(p) /\ SubSeq(s, 1, Len(p)) = p

\* the index of the first occurrence of the character c in s, or 0
RECURSIVE Find(_, _, _)
Find(s, c, i) ==
    IF i > Len(s) THEN 0
    ELSE IF SubSeq(s, i, i) = c THEN i
    ELSE Find(s, c, i + 1)

\* str::split(" "), collected: the pieces between single spaces, empty
\* pieces included
RECURSIVE Split(_)
Split(s) ==
    LET i == Find(s, " ", 1)
    IN  IF i = 0 THEN <<s>>
        ELSE <<SubSeq(s, 1, i - 1)>> \o Split(SubSeq(s, i + 1, Len(s)))

\* str::splitn(2, " "), collected: at most two pieces
SplitN2(s) ==
    LET i == Find(s, " ", 1)
    IN  IF i = 0 THEN <<s>>
        ELSE <<SubSeq(s, 1, i - 1), SubSeq(s, i + 1, Len(s))>>

Digits == "0123456789"

IsDigit(c) == Find(Digits, c, 1) > 0

DigitValue(c) == Find(Digits, c, 1) - 1

RECURSIVE AllDigits(_)
AllDigits(s) == Len(s) = 0 \/ (IsDigit(Head(s)) /\ AllDigits(Tail(s)))

RECURSIVE DigitsValue(_, _)
DigitsValue(s, acc) ==
    IF Len(s) = 0 THEN acc
    ELSE DigitsValue(Tail(s), 10 * acc + DigitValue(Head(s)))

\* str::parse::<usize>: an optional `+`, then one or more digits (the texts of
\* the model are short of the overflow the real parse rejects)
ParseUsize(s) ==
    LET body == IF Len(s) > 0 /\ Head(s) = "+" THEN Tail(s) ELSE s
    IN  IF Len(body) > 0 /\ AllDigits(body)
        THEN Some(DigitsValue(body, 0))
        ELSE None

\* str::parse::<i64>: an optional sign, then one or more digits
ParseI64(s) ==
    LET neg == Len(s) > 0 /\ Head(s) = "-"
        body == IF Len(s) > 0 /\ Head(s) \in {"+", "-"} THEN Tail(s) ELSE s
    IN  IF Len(body) > 0 /\ AllDigits(body)
        THEN Some(IF neg THEN 0 - DigitsValue(body, 0) ELSE DigitsValue(body, 0))
        ELSE None

\* Iterator::flat_map(|d| str::parse(d).ok()), collected: the pieces that
\* parse as i64, in order; the others are skipped
RECURSIVE ParsedI64s(_)
ParsedI64s(toks) ==
    IF toks = <<>> THEN <<>>
    ELSE ParseI64(Head(toks)) \o ParsedI64s(Tail(toks))


(***************************************************************************)
(* registers.rs                                                            *)
(***************************************************************************)
RegIndex == 0..5

\* #[derive(Default)] Registers
DefaultRegisters ==
    [registers |-> [i \in 1..6 |-> 0], written |-> {}, read |-> {},
     last_ip |-> None, ip |-> 0]

\* Registers::is_written
IsWritten(r, reg) == AsUsize(reg) \in r.written

\* Registers::is_read
IsRead(r, reg) == AsUsize(reg) \in r.read

\* a variant of Registers::reg that looks the index up without recording it
RegUntracked(r, reg) ==
    LET index == AsUsize(reg)
    IN  [r |-> r, ok |-> index \in RegIndex,
         val |-> IF index \in RegIndex THEN r.registers[index + 1] ELSE 0]

\* Registers::reg: the index is recorded as read before it is looked up
Reg(r, reg) ==
    LET index == AsUsize(reg)
        r2 == [r EXCEPT !.read = @ \cup {index}]
    IN  [r |-> r2, ok |-> index \in RegIndex,
         val |-> IF index \in RegIndex THEN r.registers[index + 1] ELSE 0]

\* Registers::reg_mut, and the assignment through the reference it returns:
\* the index is recorded as written before it is looked up
RegMut(r, reg, value) ==
    LET index == AsUsize(reg)
        r2 == [r EXCEPT !.written = @ \cup {index}]
    IN  [r |-> IF index \in RegIndex
               THEN [r2 EXCEPT !.registers[index + 1] = value]
               ELSE r2,
         ok |-> index \in RegIndex]

\* Registers::ip: the cell of the ip register, cast to usize
Ip(r) ==
    [ok |-> r.ip \in RegIndex,
     val |-> IF r.ip \in RegIndex THEN AsUsize(r.registers[r.ip + 1]) ELSE 0]

\* a variant of ip_mut and `+= 1` that leaves the cell as it is
IpMutKeeps(r) == [ok |-> r.ip \in RegIndex, r |-> r]

\* Registers::ip_mut, and `+= 1` through the reference it returns
IpMutIncrement(r) ==
    [ok |-> r.ip \in RegIndex,
     r |-> IF r.ip \in RegIndex
           THEN [r EXCEPT !.registers[r.ip + 1] = @ + 1]
           ELSE r]

\* Registers::clear
RegistersClear(r) == [r EXCEPT !.written = {}, !.read = {}]

\* Registers::reset
RegistersReset(r) ==
    [r EXCEPT !.written = {}, !.read = {}, !.last_ip = None,
              !.registers = [i \in 1..6 |-> 0]]

(***************************************************************************)
(* op_code.rs                                                              *)
(***************************************************************************)
\* enum OpCode; a variant is the string of its Rust name
OpCodes == {"Addr", "Addi", "Mulr", "Muli", "Banr", "Bani", "Borr", "Bori",
            "Setr", "Seti", "Gtir", "Gtri", "Gtrr", "Eqir", "Eqri", "Eqrr"}

\* impl fmt::Display for OpCode: the name of the op code in a program
OpCodeDisplay(op) ==
    CASE op = "Addr" -> "addr"
      [] op = "Addi" -> "addi"
      [] op = "Mulr" -> "mulr"
      [] op = "Muli" -> "muli"
      [] op = "Banr" -> "banr"
      [] op = "Bani" -> "bani"
      [] op = "Borr" -> "borr"
      [] op = "Bori" -> "bori"
      [] op = "Setr" -> "setr"
      [] op = "Seti" -> "seti"
      [] op = "Gtir" -> "gtir"
      [] op = "Gtri" -> "gtri"
      [] op = "Gtrr" -> "gtrr"
      [] op = "Eqir" -> "eqir"
      [] op = "Eqri" -> "eqri"
      [] op = "Eqrr" -> "eqrr"

\* a variant of OpCode::decode that takes the name of the variant too
OpCodeDecodeNames(tok) ==
    IF \E op \in OpCodes : tok \in {op, OpCodeDisplay(op)}
    THEN Some(CHOOSE op \in OpCodes : tok \in {op, OpCodeDisplay(op)})
    ELSE None

\* OpCode::decode
OpCodeDecode(tok) ==
    CASE tok = "addr" -> Some("Addr")
      [] tok = "addi" -> Some("Addi")
      [] tok = "mulr" -> Some("Mulr")
      [] tok = "muli" -> Some("Muli")
      [] tok = "banr" -> Some("Banr")
      [] tok = "bani" -> Some("Bani")
      [] tok = "borr" -> Some("Borr")
      [] tok = "bori" -> Some("Bori")
      [] tok = "setr" -> Some("Setr")
      [] tok = "seti" -> Some("Seti")
      [] tok = "gtir" -> Some("Gtir")
      [] tok = "gtri" -> Some("Gtri")
      [] tok = "gtrr" -> Some("Gtrr")
      [] tok = "eqir" -> Some("Eqir")
      [] tok = "eqri" -> Some("Eqri")
      [] tok = "eqrr" -> Some("Eqrr")
      [] OTHER -> None

\* i64 `&`, on two's complement integers
RECURSIVE BitAnd(_, _)
BitAnd(x, y) ==
    IF x = 0 \/ y = 0 THEN 0
    ELSE IF x = -1 THEN y
    ELSE IF y = -1 THEN x
    ELSE (x % 2) * (y % 2) + 2 * BitAnd(x \div 2, y \div 2)

\* i64 `|`, on two's complement integers
RECURSIVE BitOr(_, _)
BitOr(x, y) ==
    IF x = 0 THEN y
    ELSE IF y = 0 THEN x
    ELSE IF x = -1 \/ y = -1 THEN -1
    ELSE (IF x % 2 = 1 \/ y % 2 = 1 THEN 1 ELSE 0)
         + 2 * BitOr(x \div 2, y \div 2)

Bool01(c) == IF c THEN 1 ELSE 0

\* the arms of the match of OpCode::apply; x and y are the operands after the
\* register reads the arm makes
OpValue(op, x, y) ==
    CASE op \in {"Addr", "Addi"} -> x + y
      [] op \in {"Mulr", "Muli"} -> x * y
      [] op \in {"Banr", "Bani"} -> BitAnd(x, y)
      [] op \in {"Borr", "Bori"} -> BitOr(x, y)
      [] op \in {"Setr", "Seti"} -> x
      [] op \in {"Gtir", "Gtri", "Gtrr"} -> Bool01(x > y)
      [] op \in {"Eqir", "Eqri", "Eqrr"} -> Bool01(x = y)

\* the arms of OpCode::apply that call r.reg(a)
ReadsA == {"Addr", "Addi", "Mulr", "Muli", "Banr", "Bani", "Borr", "Bori",
           "Setr", "Gtri", "Gtrr", "Eqri", "Eqrr"}

\* the arms of OpCode::apply that call r.reg(b)
ReadsB == {"Addr", "Mulr", "Banr", "Borr", "Gtir", "Gtrr", "Eqir", "Eqrr"}

\* a variant of OpCode::apply that zeroes the output register before it reads
\* the operands
ApplyZeroesOutputFirst(op, r, inputs, o) ==
    LET a == inputs[1]
        b == inputs[2]
        r0 == IF o \in RegIndex THEN [r EXCEPT !.registers[o + 1] = 0] ELSE r
        ra == IF op \in ReadsA THEN Reg(r0, a) ELSE [r |-> r0, ok |-> TRUE, val |-> a]
        rb == IF op \in ReadsB THEN Reg(ra.r, b)
              ELSE [r |-> ra.r, ok |-> TRUE, val |-> b]
    IN  IF ~ra.ok THEN [ok |-> FALSE, r |-> ra.r]
        ELSE IF ~rb.ok THEN [ok |-> FALSE, r |-> rb.r]
        ELSE RegMut(rb.r, o, OpValue(op, ra.val, rb.val))

\* OpCode::apply. Rust evaluates the assigned value first (r.reg(a)?, then
\* r.reg(b)?, each returning early on a bad register) and the assignee
\* `*r.reg_mut(o)?` after it.
Apply(op, r, inputs, o) ==
    LET a == inputs[1]
        b == inputs[2]
        ra == IF op \in ReadsA THEN Reg(r, a) ELSE [r |-> r, ok |-> TRUE, val |-> a]
        rb == IF op \in ReadsB THEN Reg(ra.r, b)
              ELSE [r |-> ra.r, ok |-> TRUE, val |-> b]
    IN  IF ~ra.ok THEN [ok |-> FALSE, r |-> ra.r]
        ELSE IF ~rb.ok THEN [ok |-> FALSE, r |-> rb.r]
        ELSE RegMut(rb.r, o, OpValue(op, ra.val, rb.val))

(***************************************************************************)
(* device.rs                                                               *)
(***************************************************************************)
\* #[derive(Default)] Device
DefaultDevice ==
    [halted |-> FALSE, instructions |-> <<>>, registers |-> DefaultRegisters,
     count |-> 0, unique |-> {}]

\* Vec::get
Get(vec, index) ==
    IF index >= 0 /\ index < Len(vec) THEN Some(vec[index + 1]) ELSE None

\* a variant of Device::step that counts the step that halts the device too
StepCountsHalt(d) ==
    LET ip == Ip(d.registers)
        inst == Get(d.instructions, ip.val)[1]
        r1 == [d.registers EXCEPT !.last_ip = Some(ip.val)]
        ap == Apply(inst.op_code, r1, inst.inputs, inst.output)
        inc == IpMutIncrement(ap.r)
    IN  IF ~ip.ok THEN [ok |-> FALSE, d |-> d]
        ELSE IF Get(d.instructions, ip.val) = None
             THEN [ok |-> TRUE, d |-> [d EXCEPT !.halted = TRUE, !.count = @ + 1]]
        ELSE IF ~ap.ok THEN [ok |-> FALSE, d |-> [d EXCEPT !.registers = ap.r]]
        ELSE [ok |-> TRUE,
              d |-> [d EXCEPT !.registers = inc.r,
                              !.unique = @ \cup {ip.val},
                              !.count = @ + 1]]

\* Device::step
Step(d) ==
    LET ip == Ip(d.registers)
        inst == Get(d.instructions, ip.val)[1]
        r1 == [d.registers EXCEPT !.last_ip = Some(ip.val)]
        ap == Apply(inst.op_code, r1, inst.inputs, inst.output)
        inc == IpMutIncrement(ap.r)
    IN  IF ~ip.ok THEN [ok |-> FALSE, d |-> d]
        ELSE IF Get(d.instructions, ip.val) = None
             THEN [ok |-> TRUE, d |-> [d EXCEPT !.halted = TRUE]]
        ELSE IF ~ap.ok THEN [ok |-> FALSE, d |-> [d EXCEPT !.registers = ap.r]]
        ELSE [ok |-> TRUE,
              d |-> [d EXCEPT !.registers = inc.r,
                              !.unique = @ \cup {ip.val},
                              !.count = @ + 1]]

\* Device::clear
Clear(d) == [d EXCEPT !.registers = RegistersClear(@)]

\* a variant of Device::reset that leaves `halted` as it is
ResetKeepsHalted(d) ==
    [d EXCEPT !.count = 0, !.unique = {}, !.registers = RegistersReset(@)]

\* a variant of Device::reset that leaves `unique` as it is
ResetKeepsUnique(d) ==
    [d EXCEPT !.halted = FALSE, !.count = 0, !.registers = RegistersReset(@)]

\* Device::reset
Reset(d) ==
    [d EXCEPT !.halted = FALSE, !.count = 0, !.unique = {},
              !.registers = RegistersReset(@)]

(***************************************************************************)
(* instruction.rs                                                          *)
(***************************************************************************)
\* Instruction::decode
InstructionDecode(state) ==
    With(Split(state), LAMBDA it :
    With(ParsedI64s(Tail(it)), LAMBDA nums :
        LET op_code == OpCodeDecode(Head(it))
        IN  IF op_code = None \/ Len(nums) < 3 THEN None
            ELSE Some([op_code |-> op_code[1], inputs |-> <<nums[1], nums[2]>>,
                       output |-> nums[3]])))

(***************************************************************************)
(* device.rs, load                                                         *)
(***************************************************************************)
\* the body of the `for line in input` loop of Device::load, from the given
\* line on; an error leaves what was loaded before it
RECURSIVE LoadLines(_, _)
LoadLines(d, lines) ==
    IF lines = <<>> THEN [ok |-> TRUE, d |-> d]
    ELSE LET line == Head(lines)
             pieces == Split(line)
             ip == IF Len(pieces) < 2 THEN None ELSE ParseUsize(pieces[2])
             inst == InstructionDecode(line)
         IN  IF StartsWith(line, "#ip")
             THEN IF ip = None THEN [ok |-> FALSE, d |-> d]
                  ELSE LoadLines([d EXCEPT !.registers.ip = ip[1]], Tail(lines))
             ELSE IF inst = None THEN [ok |-> FALSE, d |-> d]
                  ELSE LoadLines([d EXCEPT !.instructions = Append(@, inst[1])],
                                 Tail(lines))

\* a variant of Device::load without `self.instructions.clear()`
LoadKeepsInstructions(d, lines) == LoadLines(Reset(d), lines)

\* a variant of Device::load that leaves the device as it was when a line fails
LoadRestores(d, lines) ==
    LET ld == LoadLines([Reset(d) EXCEPT !.instructions = <<>>], lines)
    IN  IF ld.ok THEN ld ELSE [ok |-> FALSE, d |-> d]

\* Device::load
Load(d, lines) == LoadLines([Reset(d) EXCEPT !.instructions = <<>>], lines)

\* the files load_path can open, each as its `lines()`
Files ==
    [a |-> <<"#ip 0", "seti 5 0 0">>,
     b |-> <<"#ip 5", "seti 3 0 0", "addi 0 1 0">>,
     u |-> <<"#ip 5", "seti 0 0 0", "seti 1 0 0", "seti 2 0 0", "seti 1 0 0",
             "seti 0 0 0">>,
     l |-> <<"#ip 1", "addi 0 1 0", "seti -1 0 1">>,
     n |-> <<"#ip 5", "seti -1 0 1", "addr 1 1 0", "seti 1 0 1">>,
     i |-> <<"#ip 4", "seti 1 0 0", "seti 2 0 0">>,
     r |-> <<"#ip 1", "addr 7 0 0">>,
     z |-> <<"#ip 7", "seti 1 0 0">>,
     d |-> <<"#ip 2", "seti 1 0 0", "#ip 4", "nop 1 2 0", "seti 2 0 0">>,
     e |-> <<"seti 7 0 0", "#ip x", "#ip 3">>]

\* Device::load_path: a path that cannot be opened fails before the load
LoadPath(d, path) ==
    IF path \in DOMAIN Files THEN Load(d, Files[path])
    ELSE [ok |-> FALSE, d |-> d]

(***************************************************************************)
(* hook.rs                                                                 *)
(***************************************************************************)
\* a variant of Op::test that compares the values as unsigned
OpTestUnsigned(op, a, b) ==
    CASE op = "Eq" -> AsUsize(a) = AsUsize(b)
      [] op = "Gt" -> AsUsize(a) > AsUsize(b)
      [] op = "Gte" -> AsUsize(a) >= AsUsize(b)
      [] op = "Lt" -> AsUsize(a) < AsUsize(b)
      [] op = "Lte" -> AsUsize(a) <= AsUsize(b)

\* Op::test; a variant of enum Op is the string of its Rust name
OpTest(op, a, b) ==
    CASE op = "Eq" -> a = b
      [] op = "Gt" -> a > b
      [] op = "Gte" -> a >= b
      [] op = "Lt" -> a < b
      [] op = "Lte" -> a <= b

\* impl Display for Op
OpDisplay(op) ==
    CASE op = "Eq" -> "eq"
      [] op = "Gt" -> "gt"
      [] op = "Gte" -> "gte"
      [] op = "Lt" -> "lt"
      [] op = "Lte" -> "lte"

\* the variants of enum Hook
HookRead(reg) == [kind |-> "Read", reg |-> reg]
HookWrite(reg) == [kind |-> "Write", reg |-> reg]
HookLine(line) == [kind |-> "Line", line |-> line]
HookOp(op, reg, value) == [kind |-> "Op", op |-> op, reg |-> reg, value |-> value]
HookUniqueOf(seen, lastv, reg) ==
    [kind |-> "Unique", seen |-> seen, last |-> lastv, reg |-> reg]
HookNot(inner) == [kind |-> "Not", inner |-> inner]
HookAll(hs) == [kind |-> "All", hooks |-> hs]

\* Hook::unique
HookUnique(register) == HookUniqueOf({}, None, register)

\* a variant of Hook::reset that leaves the seen set of Unique as it is
RECURSIVE HookResetKeepsSeen(_)
HookResetKeepsSeen(h) ==
    CASE h.kind = "Not" -> [h EXCEPT !.inner = HookResetKeepsSeen(@)]
      [] OTHER -> h

\* Hook::reset
RECURSIVE HookReset(_)
HookReset(h) ==
    CASE h.kind = "Unique" -> [h EXCEPT !.seen = {}]
      [] h.kind = "Not" -> [h EXCEPT !.inner = HookReset(@)]
      [] OTHER -> h

RECURSIVE HookTest(_, _)
RECURSIVE HookTestAll(_, _, _)
\* a variant of Hook::test whose Not arm inverts the Action of the inner test
\* and drops what the test did to the inner hook
HookTestNotKeepsInner(h, d) ==
    LET res(c) == IF c THEN "Pause" ELSE "None"
        keep(c) == [ok |-> TRUE, action |-> res(c), hook |-> h, d |-> d]
    IN  CASE h.kind = "Read" -> keep(IsRead(d.registers, h.reg))
          [] h.kind = "Write" -> keep(IsWritten(d.registers, h.reg))
          [] h.kind = "Line" ->
                keep(d.registers.last_ip # None /\ d.registers.last_ip[1] = h.line)
          [] h.kind = "Op" ->
                LET rd == Reg(d.registers, h.reg)
                    d2 == [d EXCEPT !.registers = rd.r]
                IN  IF ~rd.ok
                    THEN [ok |-> FALSE, action |-> "None", hook |-> h, d |-> d2]
                    ELSE [ok |-> TRUE, action |-> res(OpTest(h.op, rd.val, h.value)),
                          hook |-> h, d |-> d2]
          [] h.kind = "Unique" ->
                LET rd == Reg(d.registers, h.reg)
                    d2 == [d EXCEPT !.registers = rd.r]
                IN  IF ~rd.ok
                    THEN [ok |-> FALSE, action |-> "None", hook |-> h, d |-> d2]
                    ELSE IF rd.val \notin h.seen
                    THEN [ok |-> TRUE, action |-> "Pause",
                          hook |-> [h EXCEPT !.seen = @ \cup {rd.val},
                                             !.last = Some(rd.val)],
                          d |-> d2]
                    ELSE [ok |-> TRUE, action |-> "None", hook |-> h, d |-> d2]
          [] h.kind = "Not" ->
                With(HookTest(h.inner, d), LAMBDA t :
                    [ok |-> t.ok,
                     action |-> IF t.ok /\ t.action = "None" THEN "Pause" ELSE "None",
                     hook |-> h, d |-> t.d])
          [] h.kind = "All" ->
                With(HookTestAll(h.hooks, 1, d), LAMBDA t :
                    [ok |-> t.ok, action |-> t.action,
                     hook |-> [h EXCEPT !.hooks = t.hooks], d |-> t.d])

\* Hook::test: the Action returned ("Pause" or "None"), with the hook and the
\* device as the call leaves them; ok is FALSE when a register read failed
HookTest(h, d) ==
    LET res(c) == IF c THEN "Pause" ELSE "None"
        keep(c) == [ok |-> TRUE, action |-> res(c), hook |-> h, d |-> d]
    IN  CASE h.kind = "Read" -> keep(IsRead(d.registers, h.reg))
          [] h.kind = "Write" -> keep(IsWritten(d.registers, h.reg))
          [] h.kind = "Line" ->
                keep(d.registers.last_ip # None /\ d.registers.last_ip[1] = h.line)
          [] h.kind = "Op" ->
                LET rd == Reg(d.registers, h.reg)
                    d2 == [d EXCEPT !.registers = rd.r]
                IN  IF ~rd.ok
                    THEN [ok |-> FALSE, action |-> "None", hook |-> h, d |-> d2]
                    ELSE [ok |-> TRUE, action |-> res(OpTest(h.op, rd.val, h.value)),
                          hook |-> h, d |-> d2]
          [] h.kind = "Unique" ->
                LET rd == Reg(d.registers, h.reg)
                    d2 == [d EXCEPT !.registers = rd.r]
                IN  IF ~rd.ok
                    THEN [ok |-> FALSE, action |-> "None", hook |-> h, d |-> d2]
                    ELSE IF rd.val \notin h.seen
                    THEN [ok |-> TRUE, action |-> "Pause",
                          hook |-> [h EXCEPT !.seen = @ \cup {rd.val},
                                             !.last = Some(rd.val)],
                          d |-> d2]
                    ELSE [ok |-> TRUE, action |-> "None", hook |-> h, d |-> d2]
          [] h.kind = "Not" ->
                With(HookTest(h.inner, d), LAMBDA t :
                    [ok |-> t.ok,
                     action |-> IF t.ok /\ t.action = "None" THEN "Pause" ELSE "None",
                     hook |-> [h EXCEPT !.inner = t.hook], d |-> t.d])
          [] h.kind = "All" ->
                With(HookTestAll(h.hooks, 1, d), LAMBDA t :
                    [ok |-> t.ok, action |-> t.action,
                     hook |-> [h EXCEPT !.hooks = t.hooks], d |-> t.d])

\* a variant of the loop of the All arm that tests every child, and returns
\* None when one of them did
RECURSIVE HookTestAllEvery(_, _, _)
HookTestAllEvery(hs, i, d) ==
    IF i > Len(hs) THEN [ok |-> TRUE, action |-> "Pause", hooks |-> hs, d |-> d]
    ELSE With(HookTest(hs[i], d), LAMBDA t :
         With([hs EXCEPT ![i] = t.hook], LAMBDA hs2 :
             IF ~t.ok THEN [ok |-> FALSE, action |-> "None", hooks |-> hs2, d |-> t.d]
             ELSE With(HookTestAllEvery(hs2, i + 1, t.d), LAMBDA rest :
                  [rest EXCEPT !.action = IF t.action = "None" THEN "None" ELSE @])))

\* the `for h in hooks` loop of the All arm of Hook::test, from child i on:
\* it returns at the first child that returns None (or fails)
HookTestAll(hs, i, d) ==
    IF i > Len(hs) THEN [ok |-> TRUE, action |-> "Pause", hooks |-> hs, d |-> d]
    ELSE With(HookTest(hs[i], d), LAMBDA t :
         With([hs EXCEPT ![i] = t.hook], LAMBDA hs2 :
             IF ~t.ok THEN [ok |-> FALSE, action |-> "None", hooks |-> hs2, d |-> t.d]
             ELSE IF t.action = "None"
             THEN [ok |-> TRUE, action |-> "None", hooks |-> hs2, d |-> t.d]
             ELSE HookTestAll(hs2, i + 1, t.d)))

(***************************************************************************)
(* parser.rs                                                               *)
(***************************************************************************)
LowerCase == "abcdefghijklmnopqrstuvwxyz"

IsLower(c) == Find(LowerCase, c, 1) > 0

\* the length of the longest prefix of s made of lower-case letters
\* (digits = FALSE) or of digits (digits = TRUE)
RECURSIVE RunLength(_, _)
RunLength(s, digits) ==
    IF Len(s) > 0 /\ (IF digits THEN IsDigit(Head(s)) ELSE IsLower(Head(s)))
    THEN 1 + RunLength(Tail(s), digits)
    ELSE 0

\* Tokenizer::try_next on the rest s of the input: tok is None at the end of
\* the input; ok is FALSE on an unexpected character
RECURSIVE TryNext(_)
TryNext(s0) ==
    With(s0, LAMBDA s :
        IF Len(s) = 0 THEN [ok |-> TRUE, tok |-> None, rest |-> s]
        ELSE With(RunLength(s, IsDigit(Head(s))), LAMBDA n :
             LET c == Head(s)
                 text == SubSeq(s, 1, n)
                 after == SubSeq(s, n + 1, Len(s))
             IN  CASE IsLower(c) ->
                        \* Tokenizer::string
                        [ok |-> TRUE, tok |-> Some([t |-> "String", s |-> text]),
                         rest |-> after]
                   [] IsDigit(c) ->
                        \* Tokenizer::immediate
                        [ok |-> TRUE,
                         tok |-> Some([t |-> "Immediate", n |-> ParseI64(text)[1]]),
                         rest |-> after]
                   [] c = "(" -> [ok |-> TRUE, tok |-> Some([t |-> "Open"]), rest |-> Tail(s)]
                   [] c = ")" -> [ok |-> TRUE, tok |-> Some([t |-> "Close"]), rest |-> Tail(s)]
                   [] c = "," -> [ok |-> TRUE, tok |-> Some([t |-> "Comma"]), rest |-> Tail(s)]
                   [] c = " " -> TryNext(Tail(s))
                   [] OTHER -> [ok |-> FALSE, tok |-> None, rest |-> s]))

\* Tokenizer::next, followed by one of Token::as_string, as_immediate, as_open,
\* as_close, as_comma: the next token, which must be of the given kind
Expect(s, kind) ==
    With(TryNext(s), LAMBDA t :
        IF t.ok /\ t.tok # None /\ t.tok[1].t = kind
        THEN [ok |-> TRUE, tok |-> t.tok[1], rest |-> t.rest]
        ELSE [ok |-> FALSE, rest |-> t.rest])

\* a variant of as_register that resolves `ip` on a device without program
RegisterOfDefaultIp(name, d) ==
    CASE name = "a" -> Some(0)
      [] name = "b" -> Some(1)
      [] name = "c" -> Some(2)
      [] name = "d" -> Some(3)
      [] name = "e" -> Some(4)
      [] name = "f" -> Some(5)
      [] name = "ip" -> Some(DefaultDevice.registers.ip)
      [] OTHER -> None

\* the match of Token::as_register on the string of the token
RegisterOf(name, d) ==
    CASE name = "a" -> Some(0)
      [] name = "b" -> Some(1)
      [] name = "c" -> Some(2)
      [] name = "d" -> Some(3)
      [] name = "e" -> Some(4)
      [] name = "f" -> Some(5)
      [] name = "ip" -> Some(d.registers.ip)
      [] OTHER -> None

\* Tokenizer::next()?.as_register(device)
ExpectRegister(s, d) ==
    With(Expect(s, "String"), LAMBDA t :
        IF t.ok /\ RegisterOf(t.tok.s, d) # None
        THEN [ok |-> TRUE, reg |-> RegisterOf(t.tok.s, d)[1], rest |-> t.rest]
        ELSE [ok |-> FALSE, rest |-> t.rest])

ParseFail == [ok |-> FALSE]

\* `let op = match name.as_str()` of the comparison arm of Tokenizer::as_hook
OpOf(name) ==
    CASE name = "gt" -> "Gt"
      [] name = "lt" -> "Lt"
      [] name = "eq" -> "Eq"
      [] name = "gte" -> "Gte"
      [] name = "lte" -> "Lte"

\* Tokenizer::as_hook on the rest s of the input: the hook and what follows it;
\* each `?` returns at the first token that is missing or of another kind
RECURSIVE AsHook(_, _)
RECURSIVE AsHookAll(_, _, _)
AsHook(s, d) ==
    With(Expect(s, "String"), LAMBDA nm :
    IF ~nm.ok THEN ParseFail
    ELSE With(Expect(nm.rest, "Open"), LAMBDA open :
         LET name == nm.tok.s
         IN  CASE name = "line" ->
                    With(Expect(open.rest, "Immediate"), LAMBDA im :
                    With(Expect(im.rest, "Close"), LAMBDA close :
                        IF open.ok /\ im.ok /\ close.ok
                        THEN [ok |-> TRUE, hook |-> HookLine(AsUsize(im.tok.n)),
                              rest |-> close.rest]
                        ELSE ParseFail))
               [] name \in {"read", "write", "unique"} ->
                    With(ExpectRegister(open.rest, d), LAMBDA reg :
                    With(Expect(reg.rest, "Close"), LAMBDA close :
                        IF open.ok /\ reg.ok /\ close.ok
                        THEN [ok |-> TRUE,
                              hook |-> CASE name = "read" -> HookRead(reg.reg)
                                         [] name = "write" -> HookWrite(reg.reg)
                                         [] name = "unique" -> HookUnique(reg.reg),
                              rest |-> close.rest]
                        ELSE ParseFail))
               [] name = "all" ->
                    IF ~open.ok THEN ParseFail
                    ELSE With(AsHook(open.rest, d), LAMBDA first :
                         IF ~first.ok THEN ParseFail
                         ELSE With(AsHookAll(first.rest, d, <<first.hook>>), LAMBDA more :
                              IF more.ok
                              THEN [ok |-> TRUE, hook |-> HookAll(more.hooks),
                                    rest |-> more.rest]
                              ELSE ParseFail))
               [] name = "not" ->
                    IF ~open.ok THEN ParseFail
                    ELSE With(AsHook(open.rest, d), LAMBDA inner :
                         IF ~inner.ok THEN ParseFail
                         ELSE With(Expect(inner.rest, "Close"), LAMBDA close :
                              IF close.ok
                              THEN [ok |-> TRUE, hook |-> HookNot(inner.hook),
                                    rest |-> close.rest]
                              ELSE ParseFail))
               [] name \in {"gt", "lt", "eq", "gte", "lte"} ->
                    With(ExpectRegister(open.rest, d), LAMBDA reg :
                    With(Expect(reg.rest, "Comma"), LAMBDA comma :
                    With(Expect(comma.rest, "Immediate"), LAMBDA im :
                    With(Expect(im.rest, "Close"), LAMBDA close :
                        IF open.ok /\ reg.ok /\ comma.ok /\ im.ok /\ close.ok
                        THEN [ok |-> TRUE, hook |-> HookOp(OpOf(name), reg.reg, im.tok.n),
                              rest |-> close.rest]
                        ELSE ParseFail))))
               [] OTHER -> ParseFail))

\* the `loop` of the "all" arm of Tokenizer::as_hook: a comma and one more
\* hook, until the closing parenthesis
AsHookAll(s, d, hs) ==
    With(TryNext(s), LAMBDA t :
        IF ~t.ok \/ t.tok = None THEN ParseFail
        ELSE CASE t.tok[1].t = "Comma" ->
                    With(AsHook(t.rest, d), LAMBDA h :
                        IF h.ok THEN AsHookAll(h.rest, d, Append(hs, h.hook))
                        ELSE ParseFail)
               [] t.tok[1].t = "Close" -> [ok |-> TRUE, hooks |-> hs, rest |-> t.rest]
               [] OTHER -> ParseFail)

\* parser::parse: the hook at the start of the input; what follows it is not
\* looked at
Parse(text, d) == AsHook(text, d)

(***************************************************************************)
(* events.rs: the keys the input thread sends over the channel             *)
(***************************************************************************)
\* termion Key, in Event::Input
Char(c) == [k |-> "Char", c |-> c]
Ctrl(c) == [k |-> "Ctrl", c |-> c]
Backspace == [k |-> "Backspace"]
Up == [k |-> "Up"]
Down == [k |-> "Down"]
F(n) == [k |-> "F", n |-> n]
Esc == [k |-> "Esc"]

\* the keys of a text typed character by character
Typed(s) == [i \in 1..Len(s) |-> Char(SubSeq(s, i, i))]

(***************************************************************************)
(* tui.rs: messages                                                        *)
(***************************************************************************)
\* Message::error, Message::info, Message::bold
MessageError(text) == [level |-> "Error", text |-> text]
MessageInfo(text) == [level |-> "Info", text |-> text]
MessageBold(text) == [level |-> "Bold", text |-> text]

\* Terminal::help_command: the messages it pushes, one per line of the help
\* (each text cut to its head)
HelpMessages ==
    <<MessageBold("Commands:"),
      MessageInfo("  help"), MessageInfo("  exit, q"), MessageInfo("  load <path>"),
      MessageInfo("  reset"), MessageInfo("  break, b <expr>"),
      MessageInfo("    <expr> can be one of"), MessageInfo("    all(<expr1>[, <expr2>])"),
      MessageInfo("    <reg> is a registry"), MessageInfo("    <value> is a registry value"),
      MessageInfo("    <op> can be one of"), MessageInfo("  clear, cl [index]"),
      MessageInfo("  inspect [index]"), MessageInfo("  step, s"),
      MessageInfo("  continue, c"), MessageInfo("  set <reg> <value>"),
      MessageBold("Keys:"),
      MessageInfo("  <up>|<down>"), MessageInfo("  <F1>"), MessageInfo("  <q>"),
      MessageInfo("  <p>")>>

\* Terminal::new: noninteractive_step
noninteractive_step == 1000000

\* the top of the loop of Terminal::draw: when `draw` holds, draw_internal
\* shows the messages (with those it pushes itself) and drains them
Drawn(msgs, inter, d) ==
    IF inter \/ d.count % noninteractive_step = 0 THEN <<>> ELSE msgs

\* generic_handle: the messages after the event e (scroll and human_decoding
\* are state of the view, which is not modelled)
GenericHandle(e, msgs) ==
    IF e.k = "Up" \/ e.k = "Down" \/ (e.k = "F" /\ e.n = 1) THEN msgs
    ELSE Append(msgs, MessageError("unhandled event"))

(***************************************************************************)
(* hook.rs: Inspect                                                        *)
(***************************************************************************)
\* Display of a usize
RECURSIVE NatToString(_)
NatToString(n) ==
    IF n < 10 THEN SubSeq(Digits, n + 1, n + 1)
    ELSE NatToString(n \div 10) \o SubSeq(Digits, (n % 10) + 1, (n % 10) + 1)

\* Display of an i64
IntToString(n) == IF n < 0 THEN "-" \o NatToString(0 - n) ELSE NatToString(n)

\* impl fmt::Display for Inspect
RECURSIVE HookInspect(_)
RECURSIVE HookInspectAll(_, _)
HookInspect(h) ==
    CASE h.kind = "Read" -> "read()"
      [] h.kind = "Write" -> "write()"
      [] h.kind = "Line" -> "line()"
      [] h.kind = "Op" -> OpDisplay(h.op) \o "()"
      [] h.kind = "Unique" ->
            "unique(seen: " \o NatToString(Cardinality(h.seen)) \o ", last: "
            \o (IF h.last = None THEN "None"
                ELSE "Some(" \o IntToString(h.last[1]) \o ")")
            \o ")"
      [] h.kind = "Not" -> "not(" \o HookInspect(h.inner) \o ")"
      [] h.kind = "All" -> "all(" \o HookInspectAll(h.hooks, 1) \o ")"

HookInspectAll(hs, i) ==
    IF i > Len(hs) THEN ""
    ELSE HookInspect(hs[i]) \o (IF i < Len(hs) THEN ", " ELSE "")
         \o HookInspectAll(hs, i + 1)

(***************************************************************************)
(* registers.rs: Registers::name; hook.rs: Display                         *)
(***************************************************************************)
\* Registers::name and the Display of RegName: `ip` for the ip register, the
\* letter of the register otherwise, `?` when there is no such register
RegistersName(r, reg) ==
    LET index == AsUsize(reg)
    IN  IF index = r.ip THEN "ip"
        ELSE IF index \in RegIndex THEN SubSeq("abcdef", index + 1, index + 1)
        ELSE "?"

RECURSIVE HookDisplay(_, _)
RECURSIVE HookDisplayAll(_, _, _)

\* a variant of the All arm that writes the children with a space between them
HookDisplayAllSpaces(hs, i, d) ==
    IF i > Len(hs) THEN ""
    ELSE HookDisplay(hs[i], d) \o (IF i < Len(hs) THEN " " ELSE "")
         \o HookDisplayAll(hs, i + 1, d)

\* impl Display for hook::Display: the hook as the list of breakpoints shows it
HookDisplay(h, d) ==
    CASE h.kind = "Read" -> "read(" \o RegistersName(d.registers, h.reg) \o ")"
      [] h.kind = "Write" -> "write(" \o RegistersName(d.registers, h.reg) \o ")"
      [] h.kind = "Line" -> "line(" \o NatToString(h.line) \o ")"
      [] h.kind = "Op" ->
            OpDisplay(h.op) \o "(" \o RegistersName(d.registers, h.reg) \o ", "
            \o IntToString(h.value) \o ")"
      [] h.kind = "Unique" -> "unique(" \o RegistersName(d.registers, h.reg) \o ")"
      [] h.kind = "Not" -> "not(" \o HookDisplay(h.inner, d) \o ")"
      [] h.kind = "All" -> "all(" \o HookDisplayAll(h.hooks, 1, d) \o ")"

\* the `while let Some(h) = it.next()` of the All arm, from child i on
HookDisplayAll(hs, i, d) ==
    IF i > Len(hs) THEN ""
    ELSE HookDisplay(hs[i], d) \o (IF i < Len(hs) THEN ", " ELSE "")
         \o HookDisplayAll(hs, i + 1, d)

(***************************************************************************)
(* tui.rs: Terminal::draw, the non-interactive branch of its loop          *)
(***************************************************************************)
Min(x, y) == IF x < y THEN x ELSE y

\* history: `since` after an operation that called step() `stepped` times with
\* success, `owed` of them with hooks in the list, and left the mode as given
\* (the counts stop at 2)
Since(stepped, owed, inter) ==
    [steps |-> Min(since.steps + stepped, 2), due |-> Min(since.due + owed, 2),
     inter |-> since.inter \/ inter]

\* history: `since` after a pass over the hooks, a reset or a load
SinceNone(inter) == [steps |-> 0, due |-> 0, inter |-> inter]

\* a variant of the loop over the hooks that leaves it at the first Pause
RECURSIVE TestHooksUntilPause(_, _, _, _, _)
TestHooksUntilPause(hs, i, d, inter, acts) ==
    IF i > Len(hs) \/ inter
    THEN [ok |-> TRUE, hooks |-> hs, d |-> d, interactive |-> inter, actions |-> acts]
    ELSE With(HookTest(hs[i], d), LAMBDA t :
         With([hs EXCEPT ![i] = t.hook], LAMBDA hs2 :
             IF ~t.ok
             THEN [ok |-> FALSE, hooks |-> hs2, d |-> t.d, interactive |-> inter,
                   actions |-> acts]
             ELSE TestHooksUntilPause(hs2, i + 1, t.d, inter \/ t.action = "Pause",
                                      Append(acts, t.action))))

\* `for b in hooks.iter_mut()`: every hook is tested, from hook i on; a Pause
\* sets `interactive`; a failed test leaves the loop (and draw) with the error
RECURSIVE TestHooks(_, _, _, _, _)
TestHooks(hs, i, d, inter, acts) ==
    IF i > Len(hs)
    THEN [ok |-> TRUE, hooks |-> hs, d |-> d, interactive |-> inter, actions |-> acts]
    ELSE With(HookTest(hs[i], d), LAMBDA t :
         With([hs EXCEPT ![i] = t.hook], LAMBDA hs2 :
             IF ~t.ok
             THEN [ok |-> FALSE, hooks |-> hs2, d |-> t.d, interactive |-> inter,
                   actions |-> acts]
             ELSE TestHooks(hs2, i + 1, t.d, inter \/ t.action = "Pause",
                            Append(acts, t.action))))

\* a variant of the `device.halted` arm of the Free branch that goes on with the
\* draw loop and leaves the mode as it is
FreeHaltedSpins ==
    /\ pc = "draw" /\ ~interactive /\ device.halted
    /\ messages' = Drawn(messages, interactive, device)
    /\ evt' = "free_halted"
    /\ since' = Since(0, 0, FALSE)
    /\ UNCHANGED <<device, interactive, hooks, input, last, keys, pc, tested, log>>

\* `if device.halted { *interactive = true; continue; }`
FreeHalted ==
    /\ pc = "draw" /\ ~interactive /\ device.halted
    /\ interactive' = TRUE
    /\ messages' = Drawn(messages, interactive, device)
    /\ evt' = "free_halted"
    /\ since' = Since(0, 0, TRUE)
    /\ UNCHANGED <<device, hooks, input, last, keys, pc, tested, log>>

\* try_next() returns Key::Char('q'): `return Ok(true)`
FreeQuit ==
    /\ pc = "draw" /\ ~interactive /\ ~device.halted
    /\ keys # <<>> /\ Head(keys) = Char("q")
    /\ keys' = Tail(keys)
    /\ pc' = "exit"
    /\ messages' = Drawn(messages, interactive, device)
    /\ evt' = "free_quit"
    /\ UNCHANGED <<device, interactive, hooks, input, last, tested, since, log>>

\* a variant of the `p` arm of the Free branch that takes every key waiting in
\* the channel
FreePauseDrains ==
    /\ pc = "draw" /\ ~interactive /\ ~device.halted
    /\ keys # <<>> /\ Head(keys) = Char("p")
    /\ keys' = <<>>
    /\ interactive' = TRUE
    /\ messages' = Drawn(messages, interactive, device)
    /\ evt' = "free_pause"
    /\ since' = Since(0, 0, TRUE)
    /\ UNCHANGED <<device, hooks, input, last, pc, tested, log>>

\* try_next() returns Key::Char('p'): `*interactive = true; continue;`
FreePause ==
    /\ pc = "draw" /\ ~interactive /\ ~device.halted
    /\ keys # <<>> /\ Head(keys) = Char("p")
    /\ keys' = Tail(keys)
    /\ interactive' = TRUE
    /\ messages' = Drawn(messages, interactive, device)
    /\ evt' = "free_pause"
    /\ since' = Since(0, 0, TRUE)
    /\ UNCHANGED <<device, hooks, input, last, pc, tested, log>>

\* a variant of the pass over the hooks that does not set `interactive` on a
\* Pause
FreePassIgnoresPause ==
    /\ pc = "draw" /\ ~interactive /\ ~device.halted
    /\ IF keys = <<>> THEN TRUE ELSE Head(keys) \notin {Char("q"), Char("p")}
    /\ LET msgs == Drawn(messages, interactive, device)
           t == TestHooks(hooks, 1, device, FALSE, <<>>)
       IN  /\ keys' = IF keys = <<>> THEN keys ELSE Tail(keys)
           /\ messages' = IF keys = <<>> THEN msgs ELSE GenericHandle(Head(keys), msgs)
           /\ hooks' = t.hooks
           /\ device' = t.d
           /\ interactive' = FALSE
           /\ pc' = IF ~t.ok THEN "fail" ELSE "step"
           /\ evt' = IF t.ok THEN "pass" ELSE "pass_fail"
           /\ tested' = t.actions
           /\ since' = SinceNone(FALSE)
    /\ UNCHANGED <<input, last, log>>

\* try_next() returns no key, or a key for generic_handle; then the pass over
\* the hooks, and `return Ok(false)` when none paused
FreePass ==
    /\ pc = "draw" /\ ~interactive /\ ~device.halted
    /\ IF keys = <<>> THEN TRUE ELSE Head(keys) \notin {Char("q"), Char("p")}
    /\ LET msgs == Drawn(messages, interactive, device)
           t == TestHooks(hooks, 1, device, FALSE, <<>>)
       IN  /\ keys' = IF keys = <<>> THEN keys ELSE Tail(keys)
           /\ messages' = IF keys = <<>> THEN msgs ELSE GenericHandle(Head(keys), msgs)
           /\ hooks' = t.hooks
           /\ device' = t.d
           /\ interactive' = t.interactive
           /\ pc' = IF ~t.ok THEN "fail" ELSE IF t.interactive THEN "draw" ELSE "step"
           /\ evt' = IF t.ok THEN "pass" ELSE "pass_fail"
           /\ tested' = t.actions
           /\ since' = SinceNone(t.interactive)
    /\ UNCHANGED <<input, last, log>>

(***************************************************************************)
(* main.rs: run                                                            *)
(***************************************************************************)
\* `device.clear(); device.step()?;` after draw returned false
MainStep ==
    /\ pc = "step"
    /\ device.count < MaxCount
    /\ LET st == Step(Clear(device))
       IN  /\ device' = st.d
           /\ pc' = IF st.ok THEN "draw" ELSE "fail"
           /\ evt' = IF st.ok THEN "step" ELSE "step_fail"
           /\ since' = Since(Bool01(st.ok), Bool01(st.ok /\ hooks # <<>>), interactive)
    /\ UNCHANGED <<interactive, hooks, input, last, messages, keys, tested, log>>

(***************************************************************************)
(* tui.rs: Terminal::draw, the interactive branch: one key from `next()`   *)
(***************************************************************************)
\* events.next() returns the key at the head of the channel
Receive(k) ==
    /\ pc = "draw" /\ interactive
    /\ keys # <<>> /\ Head(keys).k = k
    /\ keys' = Tail(keys)

\* String::pop
Pop(s) == IF Len(s) = 0 THEN s ELSE SubSeq(s, 1, Len(s) - 1)

\* Key::Backspace
KeyBackspace ==
    /\ Receive("Backspace")
    /\ input' = Pop(input)
    /\ messages' = Drawn(messages, interactive, device)
    /\ evt' = "backspace"
    /\ UNCHANGED <<device, interactive, hooks, last, pc, tested, since, log>>

\* Key::Char(c), c not '\n': a space is not taken into an empty input
KeyChar ==
    /\ Receive("Char") /\ Head(keys).c # "\n"
    /\ input' = IF Head(keys).c = " " /\ Len(input) = 0 THEN input
                ELSE input \o Head(keys).c
    /\ messages' = Drawn(messages, interactive, device)
    /\ evt' = "char"
    /\ UNCHANGED <<device, interactive, hooks, last, pc, tested, since, log>>

\* a variant of Key::Ctrl('d') that returns Ok(true) whatever the input holds
KeyCtrlDAlways ==
    /\ Receive("Ctrl") /\ Head(keys).c = "d"
    /\ pc' = "exit"
    /\ messages' = Drawn(messages, interactive, device)
    /\ evt' = "ctrl_d_exit"
    /\ UNCHANGED <<device, interactive, hooks, input, last, tested, since, log>>

\* Key::Ctrl('d'): `return Ok(true)` on an empty input, and nothing otherwise
KeyCtrlD ==
    /\ Receive("Ctrl") /\ Head(keys).c = "d"
    /\ pc' = IF Len(input) = 0 THEN "exit" ELSE pc
    /\ messages' = Drawn(messages, interactive, device)
    /\ evt' = IF Len(input) = 0 THEN "ctrl_d_exit" ELSE "ctrl_d"
    /\ UNCHANGED <<device, interactive, hooks, input, last, tested, since, log>>

\* any other key: generic_handle
KeyOther ==
    /\ pc = "draw" /\ interactive /\ keys # <<>>
    /\ Head(keys).k \notin {"Backspace", "Char"}
    /\ ~(Head(keys).k = "Ctrl" /\ Head(keys).c = "d")
    /\ keys' = Tail(keys)
    /\ messages' = GenericHandle(Head(keys), Drawn(messages, interactive, device))
    /\ evt' = "other_key"
    /\ UNCHANGED <<device, interactive, hooks, input, last, pc, tested, since, log>>

(***************************************************************************)
(* tui.rs: Terminal::draw, Key::Char('\n'): the command                    *)
(***************************************************************************)
\* `last` after `if !input.is_empty() { *last = Some(input.clone()); }`
EnterLast == IF Len(input) > 0 THEN Some(input) ELSE last

\* `last.splitn(2, " ")`: the command, and the rest of the line if any
Command == SplitN2(EnterLast[1])[1]
Argument ==
    IF Len(SplitN2(EnterLast[1])) > 1 THEN Some(SplitN2(EnterLast[1])[2]) ELSE None

\* `it.flat_map(|s| s.split(" "))`: the pieces of the rest of the line
ArgumentPieces == IF Argument = None THEN <<>> ELSE Split(Argument[1])

\* Key::Char('\n') is received, the input is taken as the command and cleared
Enter ==
    /\ Receive("Char") /\ Head(keys).c = "\n"
    /\ input' = ""
    /\ last' = EnterLast

\* the command `names` is entered
EnterCommand(names) == Enter /\ EnterLast # None /\ Command \in names

\* the messages after the command pushed `pushed`
Pushed(pushed) == Drawn(messages, interactive, device) \o pushed

\* no input and no last command: "no command to re-run"
CmdNone ==
    /\ Enter /\ EnterLast = None
    /\ messages' = Pushed(<<MessageError("no command to re-run")>>)
    /\ evt' = "enter_none"
    /\ UNCHANGED <<device, interactive, hooks, pc, tested, since, log>>

\* Some("help")
CmdHelp ==
    /\ EnterCommand({"help"})
    /\ messages' = Pushed(HelpMessages)
    /\ evt' = "help"
    /\ UNCHANGED <<device, interactive, hooks, pc, tested, since, log>>

\* a variant of `reset` that resets the device and leaves the hooks
CmdResetDeviceOnly ==
    /\ EnterCommand({"reset"})
    /\ device' = Reset(device)
    /\ messages' = Pushed(<<>>)
    /\ evt' = "reset"
    /\ since' = SinceNone(TRUE)
    /\ UNCHANGED <<interactive, hooks, pc, tested, log>>

\* Some("reset")
CmdReset ==
    /\ EnterCommand({"reset"})
    /\ hooks' = [i \in 1..Len(hooks) |-> HookReset(hooks[i])]
    /\ device' = Reset(device)
    /\ messages' = Pushed(<<>>)
    /\ evt' = "reset"
    /\ since' = SinceNone(TRUE)
    /\ UNCHANGED <<interactive, pc, tested, log>>

\* a variant of `continue` without the check of `halted`
CmdContinueAlways ==
    /\ EnterCommand({"c", "continue"})
    /\ interactive' = FALSE
    /\ pc' = "step"
    /\ messages' = Pushed(<<>>)
    /\ evt' = "continue"
    /\ UNCHANGED <<device, hooks, tested, since, log>>

\* a variant of `continue` that goes on with the draw loop in Free mode instead
\* of returning to `run`
CmdContinueDraws ==
    /\ EnterCommand({"c", "continue"})
    /\ IF device.halted
       THEN /\ messages' = Pushed(<<MessageError("can't continue, device is halted!")>>)
            /\ evt' = "continue_refused"
            /\ UNCHANGED <<interactive, pc>>
       ELSE /\ interactive' = FALSE
            /\ pc' = "draw"
            /\ messages' = Pushed(<<>>)
            /\ evt' = "continue"
    /\ UNCHANGED <<device, hooks, tested, since, log>>

\* Some("c") | Some("continue")
CmdContinue ==
    /\ EnterCommand({"c", "continue"})
    /\ IF device.halted
       THEN /\ messages' = Pushed(<<MessageError("can't continue, device is halted!")>>)
            /\ evt' = "continue_refused"
            /\ UNCHANGED <<interactive, pc>>
       ELSE /\ interactive' = FALSE
            /\ pc' = "step"
            /\ messages' = Pushed(<<>>)
            /\ evt' = "continue"
    /\ UNCHANGED <<device, hooks, tested, since, log>>

\* Some("q") | Some("exit") | Some("quit")
CmdQuit ==
    /\ EnterCommand({"q", "exit", "quit"})
    /\ pc' = "exit"
    /\ messages' = Pushed(<<>>)
    /\ evt' = "quit"
    /\ UNCHANGED <<device, interactive, hooks, tested, since, log>>

\* a variant of `step` without the check of `halted`
CmdStepAlways ==
    /\ EnterCommand({"s", "step"})
    /\ pc' = "step"
    /\ messages' = Pushed(<<>>)
    /\ evt' = "step_cmd"
    /\ UNCHANGED <<device, interactive, hooks, tested, since, log>>

\* a variant of `step` that leaves the interactive mode, as `continue` does
CmdStepResumes ==
    /\ EnterCommand({"s", "step"})
    /\ IF device.halted
       THEN /\ messages' = Pushed(<<MessageError("can't step, device is halted!")>>)
            /\ evt' = "step_refused"
            /\ UNCHANGED <<interactive, pc>>
       ELSE /\ interactive' = FALSE
            /\ pc' = "step"
            /\ messages' = Pushed(<<>>)
            /\ evt' = "step_cmd"
    /\ UNCHANGED <<device, hooks, tested, since, log>>

\* Some("s") | Some("step")
CmdStep ==
    /\ EnterCommand({"s", "step"})
    /\ IF device.halted
       THEN /\ messages' = Pushed(<<MessageError("can't step, device is halted!")>>)
            /\ evt' = "step_refused"
            /\ UNCHANGED pc
       ELSE /\ pc' = "step"
            /\ messages' = Pushed(<<>>)
            /\ evt' = "step_cmd"
    /\ UNCHANGED <<device, interactive, hooks, tested, since, log>>

\* Some("b") | Some("break"), with parse_hook
CmdBreak ==
    /\ EnterCommand({"b", "break"})
    /\ Len(hooks) < MaxHooks
    /\ LET parsed == Parse(Argument[1], device)
       IN  IF Argument = None
           THEN /\ messages' = Pushed(<<MessageError("missing break condition!")>>)
                /\ evt' = "break_missing"
                /\ UNCHANGED hooks
           ELSE IF parsed.ok
           THEN /\ hooks' = Append(hooks, parsed.hook)
                /\ messages' = Pushed(<<>>)
                /\ evt' = "break"
           ELSE /\ messages' = Pushed(<<MessageError("bad condition")>>)
                /\ evt' = "break_bad"
                /\ UNCHANGED hooks
    /\ UNCHANGED <<device, interactive, pc, tested, since, log>>

\* Some("load"), with load_command
CmdLoad ==
    /\ EnterCommand({"load"})
    /\ LET loaded == LoadPath(device, ArgumentPieces[1])
       IN  IF ArgumentPieces = <<>>
           THEN /\ messages' = Pushed(<<MessageError("expected: load <path>")>>)
                /\ evt' = "load_missing"
                /\ UNCHANGED <<device, since>>
           ELSE /\ device' = loaded.d
                /\ messages' = IF loaded.ok THEN Pushed(<<>>)
                               ELSE Pushed(<<MessageError("problem when loading")>>)
                /\ evt' = IF loaded.ok THEN "load" ELSE "load_fail"
                /\ since' = IF ArgumentPieces[1] \in DOMAIN Files
                            THEN SinceNone(TRUE)
                            ELSE since
    /\ UNCHANGED <<interactive, hooks, pc, tested, log>>

\* a variant of Vec::remove that removes the last element
RemoveLast(vec, index) == SubSeq(vec, 1, Len(vec) - 1)

\* Vec::remove
Remove(vec, index) ==
    [i \in 1..(Len(vec) - 1) |-> IF i <= index THEN vec[i] ELSE vec[i + 1]]

\* the `let index = match it.next()` of clear_command and of inspect_command:
\* the index given, the last index without one, None with the error otherwise
HookIndex ==
    IF ArgumentPieces # <<>>
    THEN IF ParseUsize(ArgumentPieces[1]) # None
         THEN [index |-> ParseUsize(ArgumentPieces[1]), error |-> ""]
         ELSE [index |-> None, error |-> "bad index"]
    ELSE IF hooks = <<>>
         THEN [index |-> None, error |-> "no breakpoints to clear"]
         ELSE [index |-> Some(Len(hooks) - 1), error |-> ""]

\* a variant of clear_command that takes an index past the end of the list as
\* the index of the last hook
CmdClearClamps ==
    /\ EnterCommand({"clear", "cl"})
    /\ IF HookIndex.index = None \/ hooks = <<>>
       THEN /\ messages' = Pushed(<<MessageError(HookIndex.error)>>)
            /\ evt' = "clear_fail"
            /\ UNCHANGED hooks
       ELSE /\ hooks' = Remove(hooks, Min(HookIndex.index[1], Len(hooks) - 1))
            /\ messages' = Pushed(<<>>)
            /\ evt' = "clear"
    /\ UNCHANGED <<device, interactive, pc, tested, since, log>>

\* Some("clear") | Some("cl"), with clear_command
CmdClear ==
    /\ EnterCommand({"clear", "cl"})
    /\ IF HookIndex.index = None
       THEN /\ messages' = Pushed(<<MessageError(HookIndex.error)>>)
            /\ evt' = "clear_fail"
            /\ UNCHANGED hooks
       ELSE IF HookIndex.index[1] >= Len(hooks)
       THEN /\ messages' = Pushed(<<MessageError("bad hook index")>>)
            /\ evt' = "clear_fail"
            /\ UNCHANGED hooks
       ELSE /\ hooks' = Remove(hooks, HookIndex.index[1])
            /\ messages' = Pushed(<<>>)
            /\ evt' = "clear"
    /\ UNCHANGED <<device, interactive, pc, tested, since, log>>

\* Some("inspect"), with inspect_command
CmdInspect ==
    /\ EnterCommand({"inspect"})
    /\ IF HookIndex.index = None
       THEN messages' = Pushed(<<MessageError(HookIndex.error)>>)
       ELSE IF HookIndex.index[1] >= Len(hooks)
       THEN messages' = Pushed(<<MessageError("no hook with index")>>)
       ELSE messages' =
                Pushed(<<MessageInfo(HookInspect(hooks[HookIndex.index[1] + 1]))>>)
    /\ evt' = "inspect"
    /\ UNCHANGED <<device, interactive, hooks, pc, tested, since, log>>

\* `fn register` of tui.rs: the register named, None with its messages otherwise
Register(d, reg) ==
    IF reg = None THEN [reg |-> None, pushed |-> <<>>]
    ELSE IF RegisterOf(reg[1], d) # None
         THEN [reg |-> RegisterOf(reg[1], d), pushed |-> <<>>]
         ELSE [reg |-> None, pushed |-> <<MessageError("bad register")>>]

\* a variant of `set` that takes a halted device out of the halt
CmdSetRevives ==
    /\ EnterCommand({"set"})
    /\ LET reg == Register(device, IF ArgumentPieces = <<>> THEN None
                                   ELSE Some(ArgumentPieces[1]))
           value == ParseI64(ArgumentPieces[2])
           wr == RegMut(device.registers, reg.reg[1], value[1])
       IN  IF reg.reg = None
           THEN /\ messages' = Pushed(reg.pushed \o
                        <<MessageError("expected: set <register> <value>")>>)
                /\ evt' = "set_fail"
                /\ UNCHANGED <<device, pc>>
           ELSE IF Len(ArgumentPieces) < 2
           THEN /\ messages' = Pushed(<<MessageError("expected: set <register> <value>")>>)
                /\ evt' = "set_fail"
                /\ UNCHANGED <<device, pc>>
           ELSE IF value = None
           THEN /\ messages' = Pushed(<<MessageError("bad value")>>)
                /\ evt' = "set_fail"
                /\ UNCHANGED <<device, pc>>
           ELSE /\ device' = [device EXCEPT !.registers = wr.r, !.halted = FALSE]
                /\ pc' = IF wr.ok THEN pc ELSE "fail"
                /\ messages' = Pushed(<<>>)
                /\ evt' = IF wr.ok THEN "set" ELSE "set_error"
    /\ UNCHANGED <<interactive, hooks, tested, since, log>>

\* Some("set"), with set_command: an error of reg_mut leaves draw with `?`
CmdSet ==
    /\ EnterCommand({"set"})
    /\ LET reg == Register(device, IF ArgumentPieces = <<>> THEN None
                                   ELSE Some(ArgumentPieces[1]))
           value == ParseI64(ArgumentPieces[2])
           wr == RegMut(device.registers, reg.reg[1], value[1])
       IN  IF reg.reg = None
           THEN /\ messages' = Pushed(reg.pushed \o
                        <<MessageError("expected: set <register> <value>")>>)
                /\ evt' = "set_fail"
                /\ UNCHANGED <<device, pc>>
           ELSE IF Len(ArgumentPieces) < 2
           THEN /\ messages' = Pushed(<<MessageError("expected: set <register> <value>")>>)
                /\ evt' = "set_fail"
                /\ UNCHANGED <<device, pc>>
           ELSE IF value = None
           THEN /\ messages' = Pushed(<<MessageError("bad value")>>)
                /\ evt' = "set_fail"
                /\ UNCHANGED <<device, pc>>
           ELSE /\ device' = [device EXCEPT !.registers = wr.r]
                /\ pc' = IF wr.ok THEN pc ELSE "fail"
                /\ messages' = Pushed(<<>>)
                /\ evt' = IF wr.ok THEN "set" ELSE "set_error"
    /\ UNCHANGED <<interactive, hooks, tested, since, log>>

Commands == {"help", "reset", "c", "continue", "q", "exit", "quit", "s", "step",
             "b", "break", "load", "clear", "cl", "inspect", "set"}

\* Some(command): "no such command"
CmdUnknown ==
    /\ Enter /\ EnterLast # None /\ Command \notin Commands
    /\ messages' = Pushed(<<MessageError("no such command: " \o Command)>>)
    /\ evt' = "unknown"
    /\ UNCHANGED <<device, interactive, hooks, pc, tested, since, log>>

(***************************************************************************)
(* The debugger: main.rs `run` with the terminal of `main`, and its user   *)
(***************************************************************************)
\* a line typed and entered
Entered(s) == Typed(s \o "\n")

\* the keys the user sends one at a time, whatever the input holds
SingleKeys == {<<Char("\n")>>, <<Backspace>>, <<Ctrl("d")>>, <<Up>>, <<Esc>>}

\* `run` up to the first draw: Device::default(), the load_path of the initial
\* program if one is given, Terminal::new().interactive()
InitRun(paths) ==
    /\ \E initial \in paths :
          device = IF initial = None THEN DefaultDevice
                   ELSE LoadPath(DefaultDevice, initial[1]).d
    /\ interactive = TRUE
    /\ hooks = <<>>
    /\ input = ""
    /\ last = None
    /\ messages = HelpMessages
    /\ keys = <<>>
    /\ pc = "draw"
    /\ evt = "init"
    /\ tested = <<>>
    /\ since = SinceNone(TRUE)
    /\ log = [reset |-> FALSE, tests |-> <<>>]

\* the input thread of Events::new sends the keys of a gesture: the user waits
\* for the keys typed before to be received, and starts one of `lines` on an
\* empty input only
UserKeys(lines, singles) ==
    /\ pc \in {"draw", "step"}
    /\ keys = <<>>
    /\ \E g \in lines \cup singles :
          /\ g \in lines => Len(input) = 0
          /\ keys' = g
    /\ UNCHANGED <<device, interactive, hooks, input, last, messages, pc, evt, tested,
                   since, log>>

\* Terminal::draw and the step of `run`: every operation of the debugger
Debugger ==
    \/ MainStep
    \/ FreeHalted \/ FreeQuit \/ FreePause \/ FreePass
    \/ KeyBackspace \/ KeyChar \/ KeyCtrlD \/ KeyOther
    \/ CmdNone \/ CmdHelp \/ CmdReset \/ CmdContinue \/ CmdQuit \/ CmdStep
    \/ CmdBreak \/ CmdLoad \/ CmdClear \/ CmdInspect \/ CmdSet \/ CmdUnknown

(***************************************************************************)
(* Spec: the debugger started with program `b` or `l`, and a user who      *)
(* steps, continues, pauses, quits, sets a register, resets, loads and     *)
(* sets breakpoints.                                                       *)
(***************************************************************************)
SpecLines ==
    {Entered("s"), Entered("c"), Entered("reset"), Entered("set a 1"),
     Entered("load a"), Entered("b line(1)"), Entered("b write(a)"),
     <<Char("p")>>, <<Char("q")>>}

Init == InitRun({Some("b"), Some("l")})

Next ==
    \/ UserKeys(SpecLines, {<<Char("\n")>>})
    \/ MainStep
    \/ FreeHalted \/ FreeQuit \/ FreePause \/ FreePass
    \/ KeyChar
    \/ CmdReset \/ CmdContinue \/ CmdQuit \/ CmdStep \/ CmdBreak \/ CmdLoad
    \/ CmdSet \/ CmdUnknown

Spec == Init /\ [][Next]_vars

(***************************************************************************)
(* SpecDevice: the Device as a client of the library drives it, on every   *)
(* program of one instruction with operands in 0..MaxOperand, and on the   *)
(* program `a`.                                                            *)
(***************************************************************************)
\* the ip registers of the programs drawn: one an operand can name, one not
DeviceIps == {1, 4}

\* the values a client assigns to a register
SetValues == {-1, 1}

\* the client does not step a device that has executed MaxSteps instructions
MaxSteps == 3

\* the lines of a program of one instruction
ProgramText(ipr, op, a, b, o) ==
    <<"#ip " \o NatToString(ipr),
      op \o " " \o IntToString(a) \o " " \o IntToString(b) \o " " \o IntToString(o)>>

\* Device::default() and Device::load of the program
InitDevice ==
    /\ \/ \E ipr \in DeviceIps, op \in OpCodes :
          \E a \in 0..MaxOperand, b \in 0..MaxOperand, o \in 0..MaxOperand :
             device = Load(DefaultDevice, ProgramText(ipr, OpCodeDisplay(op), a, b, o)).d
       \/ device = LoadPath(DefaultDevice, "a").d
    /\ interactive = TRUE
    /\ hooks = <<>>
    /\ input = ""
    /\ last = None
    /\ messages = <<>>
    /\ keys = <<>>
    /\ pc = "draw"
    /\ evt = "init"
    /\ tested = <<>>
    /\ since = SinceNone(TRUE)
    /\ log = [reset |-> FALSE, tests |-> <<>>]

\* `device.clear(); device.step()`, as main.rs calls them
DeviceStep ==
    /\ device.count < MaxSteps
    /\ \E st \in {Step(Clear(device))} :
          /\ device' = st.d
          /\ evt' = IF st.ok THEN "step" ELSE "step_fail"
    /\ UNCHANGED <<interactive, hooks, input, last, messages, keys, pc, tested, since, log>>

\* `*device.registers.reg_mut(reg)? = value`, as set_command calls it
DeviceSet ==
    /\ \E reg \in 0..MaxOperand, value \in SetValues :
          device' = [device EXCEPT !.registers = RegMut(@, reg, value).r]
    /\ evt' = "set"
    /\ UNCHANGED <<interactive, hooks, input, last, messages, keys, pc, tested, since, log>>

NextDevice == DeviceStep \/ DeviceSet

SpecDevice == InitDevice /\ [][NextDevice]_vars

(***************************************************************************)
(* SpecUnique: Hook::test and Hook::reset on a hook unique(r), against the *)
(* values a program leaves in register r.                                  *)
(***************************************************************************)
\* the hook is not tested more than MaxTests times between two resets
MaxTests == 5

\* the values the register takes are in 0..MaxValue
MaxValue == 2

InitUnique ==
    /\ device = DefaultDevice
    /\ interactive = FALSE
    /\ \E reg \in {0, 1} : hooks = <<HookUnique(reg)>>
    /\ input = ""
    /\ last = None
    /\ messages = <<>>
    /\ keys = <<>>
    /\ pc = "draw"
    /\ evt = "init"
    /\ tested = <<>>
    /\ since = SinceNone(FALSE)
    /\ log = [reset |-> FALSE, tests |-> <<>>]

\* a step leaves `value` in the register of the hook, and the hook is tested
UniqueTest ==
    /\ Len(log.tests) < MaxTests
    /\ \E value \in 0..MaxValue :
       \E t \in {HookTest(hooks[1], [device EXCEPT !.registers =
                     RegMut(RegistersClear(@), hooks[1].reg, value).r])} :
          /\ hooks' = <<t.hook>>
          /\ device' = t.d
          /\ tested' = <<t.action>>
          /\ log' = [log EXCEPT !.tests = Append(@, [value |-> value, action |-> t.action])]
    /\ evt' = "test"
    /\ UNCHANGED <<interactive, input, last, messages, keys, pc, since>>

\* Hook::reset
UniqueReset ==
    /\ hooks' = <<HookReset(hooks[1])>>
    /\ log' = [reset |-> TRUE, tests |-> <<>>]
    /\ evt' = "reset"
    /\ UNCHANGED <<device, interactive, input, last, messages, keys, pc, tested, since>>

NextUnique == UniqueTest \/ UniqueReset

SpecUnique == InitUnique /\ [][NextUnique]_vars

(***************************************************************************)
(* SpecHook: Hook::test and Hook::reset on one hook, as the parser builds  *)
(* it from a breakpoint expression, against the states the programs `l`    *)
(* and `n` leave the device in, step after step.                           *)
(***************************************************************************)
\* the breakpoint expressions
HookTexts ==
    {"read(a)", "write(b)", "line(0)", "line(1)",
     "eq(a, 1)", "lt(b, 0)", "lte(a, 1)", "gt(a, 1)", "gte(b, 1)",
     "unique(a)", "not(unique(a))", "not(read(b))", "not(all(unique(a)))",
     "all(unique(a), unique(b))", "all(eq(a, 1), unique(b))",
     "all(lt(b, 1), read(b))", "all(read(b), lt(b, 1))",
     "all(write(a), line(0), unique(a))"}

InitHook ==
    /\ \E path \in {"l", "n"} : device = LoadPath(DefaultDevice, path).d
    /\ interactive = TRUE
    /\ \E text \in HookTexts : hooks = <<Parse(text, device).hook>>
    /\ input = ""
    /\ last = None
    /\ messages = <<>>
    /\ keys = <<>>
    /\ pc = "draw"
    /\ evt = "init"
    /\ tested = <<>>
    /\ since = SinceNone(TRUE)
    /\ log = [reset |-> FALSE, tests |-> <<>>]

\* `b.test(device)?` on the hook
HookTestOne ==
    /\ \E t \in {HookTest(hooks[1], device)} :
          /\ hooks' = <<t.hook>>
          /\ device' = t.d
          /\ tested' = <<t.action>>
          /\ evt' = IF t.ok THEN "test" ELSE "test_fail"
    /\ UNCHANGED <<interactive, input, last, messages, keys, pc, since, log>>

\* `h.reset()` on the hook
HookResetOne ==
    /\ hooks' = <<HookReset(hooks[1])>>
    /\ evt' = "reset"
    /\ UNCHANGED <<device, interactive, input, last, messages, keys, pc, tested, since,
                   log>>

NextHook == DeviceStep \/ HookTestOne \/ HookResetOne

SpecHook == InitHook /\ [][NextHook]_vars

(***************************************************************************)
(* SpecBreak: the debugger started with program `b` or `u`, and a user who *)
(* sets breakpoints, continues and resets.                                 *)
(***************************************************************************)
BreakLines ==
    {Entered("c"), Entered("reset"), Entered("b line(1)"), Entered("b unique(a)"),
     Entered("b read(a)"), Entered("b eq(a, 3)")}

InitBreak == InitRun({Some("b"), Some("u")})

NextBreak ==
    \/ UserKeys(BreakLines, {})
    \/ MainStep
    \/ FreeHalted \/ FreePass
    \/ KeyChar
    \/ CmdReset \/ CmdContinue \/ CmdBreak

SpecBreak == InitBreak /\ [][NextBreak]_vars

(***************************************************************************)
(* SpecParse: the debugger started with program `i` (`#ip 4`) or `b`       *)
(* (`#ip 5`), and a user who sets breakpoints on `ip`, loads the other     *)
(* program and continues.                                                  *)
(***************************************************************************)
ParseLines ==
    {Entered("b gt(ip, 100)"), Entered("b unique(ip)"), Entered("load i"),
     Entered("load b"), Entered("c")}

InitParse == InitRun({Some("i"), Some("b")})

NextParse ==
    \/ UserKeys(ParseLines, {})
    \/ MainStep
    \/ FreeHalted \/ FreePass
    \/ KeyChar
    \/ CmdContinue \/ CmdBreak \/ CmdLoad

SpecParse == InitParse /\ [][NextParse]_vars

(***************************************************************************)
(* SpecErrors: the debugger started with program `b`, and a user who       *)
(* enters commands that are wrong, loads programs that name a register     *)
(* that does not exist, sets a register and a breakpoint, steps and        *)
(* continues.                                                              *)
(***************************************************************************)
ErrorLines ==
    {Entered("x"), Entered("b"), Entered("b x"), Entered("load"), Entered("set a"),
     Entered("set a x"), Entered("cl x"), Entered("cl 5"), Entered("inspect 9"),
     Entered("b unique(a)"), Entered("c")}

InitErrors == InitRun({Some("b")})

NextErrors ==
    \/ UserKeys(ErrorLines, {})
    \/ MainStep
    \/ FreeHalted \/ FreePass
    \/ KeyChar
    \/ CmdContinue \/ CmdBreak \/ CmdLoad \/ CmdClear \/ CmdInspect
    \/ CmdSet \/ CmdUnknown

SpecErrors == InitErrors /\ [][NextErrors]_vars

(***************************************************************************)
(* SpecRegister: the debugger started with program `b`, with `r` (an       *)
(* operand names register 7) or with `z` (`#ip 7`), and a user who sets a  *)
(* register and a breakpoint, steps and continues.                         *)
(***************************************************************************)
RegisterLines ==
    {Entered("set ip 1"), Entered("set x 1"), Entered("b read(a)"), Entered("s"),
     Entered("c")}

InitRegister == InitRun({Some("b"), Some("r"), Some("z")})

NextRegister ==
    \/ UserKeys(RegisterLines, {})
    \/ MainStep
    \/ FreeHalted \/ FreePass
    \/ KeyChar
    \/ CmdContinue \/ CmdStep \/ CmdBreak \/ CmdSet

SpecRegister == InitRegister /\ [][NextRegister]_vars

(***************************************************************************)
(* SpecClear: the debugger started with program `b`, and a user who sets   *)
(* breakpoints, continues, and clears breakpoints with and without an      *)
(* index.                                                                  *)
(***************************************************************************)
ClearLines ==
    {Entered("b unique(a)"), Entered("b line(1)"), Entered("c"), Entered("cl"),
     Entered("clear 0"), Entered("cl 1"), Entered("cl 2"), Entered("cl 5"),
     Entered("cl x")}

InitClear == InitRun({Some("b")})

NextClear ==
    \/ UserKeys(ClearLines, {})
    \/ MainStep
    \/ FreeHalted \/ FreePass
    \/ KeyChar
    \/ CmdContinue \/ CmdBreak \/ CmdClear

SpecClear == InitClear /\ [][NextClear]_vars

(***************************************************************************)
(* SpecExit: the debugger started with program `b`, and a user who steps,  *)
(* continues, and leaves with `q`, with a command or with Ctrl-D, on an     *)
(* empty input and on one that holds text.                                 *)
(***************************************************************************)
\* the user does not type `q` into an input of MaxInput characters
MaxInput == 2

ExitLines == {Entered("exit"), Entered("quit"), Entered("c"), Entered("s")}

ExitKeys == {<<Ctrl("d")>>, <<Char("\n")>>}

InitExit == InitRun({Some("b")})

NextExit ==
    \/ UserKeys(ExitLines, ExitKeys)
    \/ Len(input) < MaxInput /\ UserKeys({}, {<<Char("q")>>})
    \/ MainStep
    \/ FreeHalted \/ FreeQuit \/ FreePass
    \/ KeyChar \/ KeyCtrlD
    \/ CmdNone \/ CmdContinue \/ CmdQuit \/ CmdStep \/ CmdUnknown

SpecExit == InitExit /\ [][NextExit]_vars

(***************************************************************************)
(* SpecKeys: the debugger with program `b` after the user entered          *)
(* `b unique(a)`, and the input thread of Events::new, which sends the     *)
(* keys of stdin one by one whatever the main loop is doing.               *)
(***************************************************************************)
\* the input thread does not send a key when the channel and the input hold
\* MaxQueue keys and characters
MaxQueue == 3

\* the keys the user presses
ThreadKeys == {Char("p"), Char("q"), Char("c"), Char("\n")}

InitKeys ==
    /\ device = LoadPath(DefaultDevice, "b").d
    /\ interactive = TRUE
    /\ hooks = <<HookUnique(0)>>
    /\ input = ""
    /\ last = Some("b unique(a)")
    /\ messages = <<>>
    /\ keys = <<>>
    /\ pc = "draw"
    /\ evt = "break"
    /\ tested = <<>>
    /\ since = SinceNone(TRUE)
    /\ log = [reset |-> FALSE, tests |-> <<>>]

\* the thread of Events::new: `tx.send(Event::Input(key))` for a key of stdin
InputThread ==
    /\ pc \in {"draw", "step"}
    /\ Len(keys) + Len(input) < MaxQueue
    /\ \E k \in ThreadKeys : keys' = Append(keys, k)
    /\ UNCHANGED <<device, interactive, hooks, input, last, messages, pc, evt, tested,
                   since, log>>

NextKeys ==
    \/ InputThread
    \/ MainStep
    \/ FreeHalted \/ FreeQuit \/ FreePause \/ FreePass
    \/ KeyChar
    \/ CmdContinue \/ CmdQuit \/ CmdBreak \/ CmdUnknown

SpecKeys == InitKeys /\ [][NextKeys]_vars

(***************************************************************************)
(* SpecReload: the debugger with program `b`; the user sets a breakpoint   *)
(* unique(a), runs, and loads a file that is complete and files that fail *)
(* at a line.                                                              *)
(***************************************************************************)
\* the lines the user enters once the breakpoint is set
ReloadLines == {Entered("c"), Entered("load a"), Entered("load d"), Entered("load e")}

InitReload == InitRun({Some("b")})

NextReload ==
    \/ hooks = <<>> /\ UserKeys({Entered("b unique(a)")}, {})
    \/ hooks # <<>> /\ UserKeys(ReloadLines, {})
    \/ MainStep
    \/ FreeHalted \/ FreePass
    \/ KeyChar
    \/ CmdContinue \/ CmdBreak \/ CmdLoad

SpecReload == InitReload /\ [][NextReload]_vars

(***************************************************************************)
(* SpecHalted: the debugger with program `b`; the user runs it to the halt *)
(* and sets the ip register, steps, continues, resets and loads.           *)
(***************************************************************************)
HaltedLines ==
    {Entered("c"), Entered("s"), Entered("set ip 0"), Entered("set ip 9"),
     Entered("reset"), Entered("load a"), Entered("load d"), Entered("load x")}

InitHalted == InitRun({Some("b")})

NextHalted ==
    \/ UserKeys(HaltedLines, {})
    \/ MainStep
    \/ FreeHalted \/ FreePass
    \/ KeyChar
    \/ CmdReset \/ CmdContinue \/ CmdStep \/ CmdLoad \/ CmdSet

SpecHalted == InitHalted /\ [][NextHalted]_vars

(***************************************************************************)
(* SpecStart: `run` on program `b` with a terminal in either mode, as      *)
(* Terminal::new() leaves it (Free) or after interactive(), and with hooks *)
(* given to it with Terminal::hook; the user runs, pauses, resets, loads.  *)
(***************************************************************************)
StartLines == {Entered("c"), Entered("s"), Entered("reset"), Entered("load a")}

\* the hooks of the terminal
StartHooks == {<<>>, <<HookLine(1)>>, <<HookUnique(0)>>, <<HookLine(9), HookWrite(0)>>}

\* Device::default(), load_path, Terminal::new(), interactive() and hook()
InitStart ==
    /\ device = LoadPath(DefaultDevice, "b").d
    /\ interactive \in BOOLEAN
    /\ hooks \in StartHooks
    /\ input = ""
    /\ last = None
    /\ messages = HelpMessages
    /\ keys = <<>>
    /\ pc = "draw"
    /\ evt = "init"
    /\ tested = <<>>
    /\ since = SinceNone(interactive)
    /\ log = [reset |-> FALSE, tests |-> <<>>]

NextStart ==
    \/ UserKeys(StartLines, {})
    \/ ~interactive /\ UserKeys({}, {<<Char("p")>>})
    \/ MainStep
    \/ FreeHalted \/ FreePause \/ FreePass
    \/ KeyChar
    \/ CmdReset \/ CmdContinue \/ CmdStep \/ CmdLoad

SpecStart == InitStart /\ [][NextStart]_vars

(***************************************************************************)
(* SpecLoad: a client that calls Device::load with the lines of a program, *)
(* well-formed or not, on a device it has loaded and stepped before.       *)
(***************************************************************************)
\* an instruction of every op code, as Display writes the op code
InstructionLines ==
    {OpCodeDisplay(op) \o " 1 2 0" : op \in OpCodes} \cup {"seti -1 0 1", "addi 0 1 0"}

\* lines that are not an op code and three integers separated by one space
DamagedLines ==
    {"", "nop 1 2 0", "Addr 1 2 0", "add 1 2 0", "addrr 1 2 0", " addr 1 2 0",
     "1 2 0", "seti", "seti 1", "seti 1 2", "seti 1 x 0", "seti x 2 0", "seti 1 2 x",
     "seti 1 x 0 0", "seti 1 2 3 4", "seti 1  2 0", "seti 1.5 2 0"}

\* `#ip` lines, with an argument in 0..5 and with another or none
DirectiveLines ==
    {"#ip 0", "#ip 3", "#ip 5", "#ip 6", "#ip 7", "#ip -1", "#ip x", "#ip", "#ip  2",
     "#ip 2 9"}

\* the programs the client loads
LoadInputs ==
    {<<l>> : l \in InstructionLines \cup DamagedLines \cup DirectiveLines}
    \cup {<<d, l>> : d \in DirectiveLines,
                     l \in {"addi 0 1 0", "seti -1 0 1", "seti 1 x 0 0", "nop 1 2 0"}}
    \cup {<<l, m>> : l \in {"addi 0 1 0", "mulr 1 2 0"},
                     m \in InstructionLines \cup {"#ip 2", "seti 1 2"}}
    \cup {<<"#ip 1", l, "#ip 4", m>> :
             l \in {"addi 0 1 0", "seti -1 0 1"},
             m \in {"addi 0 1 0", "seti -1 0 1", "seti 1 2", ""}}

InitLoad ==
    /\ device = DefaultDevice
    /\ interactive = TRUE
    /\ hooks = <<>>
    /\ input = ""
    /\ last = None
    /\ messages = <<>>
    /\ keys = <<>>
    /\ pc = "draw"
    /\ evt = "init"
    /\ tested = <<>>
    /\ since = SinceNone(TRUE)
    /\ log = [lines |-> <<>>]

\* Device::load of the lines, which the log keeps
DeviceLoad ==
    /\ \E lines \in LoadInputs :
       \E ld \in {Load(device, lines)} :
          /\ device' = ld.d
          /\ evt' = IF ld.ok THEN "load" ELSE "load_fail"
          /\ log' = [lines |-> lines]
    /\ UNCHANGED <<interactive, hooks, input, last, messages, keys, pc, tested, since>>

NextLoad == DeviceLoad \/ DeviceStep

SpecLoad == InitLoad /\ [][NextLoad]_vars

(***************************************************************************)
(* SpecCounts: a client that calls Device::load, reset, clear and step in  *)
(* any order, and stops at the first step that returns an error.           *)
(***************************************************************************)
\* instructions that go on, jump back, stay and skip when the ip is register b
JumpLines == {"addi 0 1 0", "seti -1 0 1", "seti 0 0 1", "addi 1 1 1"}

\* the programs the client loads: straight ones, loops and jumps, some with a
\* bad register, one that is damaged in its last line, and the empty one
CountInputs ==
    {Files.a, Files.b, Files.u, Files.l, Files.n, Files.r, Files.z,
     <<"#ip 1", "addi 0 1 0", "seti -1 0 1", "nop">>, <<>>}
    \cup {<<"#ip 1", l, m>> : l \in JumpLines, m \in JumpLines}

InitCounts == InitLoad

\* Device::load of the lines, which the log keeps
CountsLoad ==
    /\ pc = "draw"
    /\ \E lines \in CountInputs :
       \E ld \in {Load(device, lines)} :
          /\ device' = ld.d
          /\ evt' = IF ld.ok THEN "load" ELSE "load_fail"
          /\ log' = [lines |-> lines]
    /\ UNCHANGED <<interactive, hooks, input, last, messages, keys, pc, tested, since>>

\* Device::reset
CountsReset ==
    /\ pc = "draw"
    /\ device' = Reset(device)
    /\ evt' = "reset"
    /\ UNCHANGED <<interactive, hooks, input, last, messages, keys, pc, tested, since, log>>

\* Device::clear
CountsClear ==
    /\ pc = "draw"
    /\ device' = Clear(device)
    /\ evt' = "clear"
    /\ UNCHANGED <<interactive, hooks, input, last, messages, keys, pc, tested, since, log>>

\* Device::step; an error ends the client
CountsStep ==
    /\ pc = "draw"
    /\ device.count < MaxSteps
    /\ \E st \in {Step(device)} :
          /\ device' = st.d
          /\ pc' = IF st.ok THEN "draw" ELSE "fail"
          /\ evt' = IF st.ok THEN "step" ELSE "step_fail"
    /\ UNCHANGED <<interactive, hooks, input, last, messages, keys, tested, since, log>>

NextCounts == CountsLoad \/ CountsReset \/ CountsClear \/ CountsStep

SpecCounts == InitCounts /\ [][NextCounts]_vars

(***************************************************************************)
(* SpecFree: `run` with a terminal left in Free mode, hooks given to it    *)
(* with Terminal::hook, and no key pressed: the main loop alone, which     *)
(* blocks nowhere in this mode and so takes every step it can.             *)
(***************************************************************************)
\* the programs run: some halt, some loop, one fails at its first step
FreePrograms ==
    {Files.a, Files.b, Files.u, Files.l, Files.n, Files.i, Files.r}
    \cup {<<"#ip 1", l, m>> : l \in JumpLines, m \in JumpLines}

\* the hooks of the terminal: none, hooks that never pause on these programs,
\* and hooks that do
FreeHooks == {<<>>, <<HookLine(9)>>, <<HookLine(1)>>, <<HookLine(9), HookUnique(0)>>}

\* Device::default(), Device::load of the program, Terminal::new() and hook()
InitFree ==
    /\ \E lines \in FreePrograms :
          /\ device = Load(DefaultDevice, lines).d
          /\ log = [lines |-> lines]
    /\ interactive = FALSE
    /\ hooks \in FreeHooks
    /\ input = ""
    /\ last = None
    /\ messages = HelpMessages
    /\ keys = <<>>
    /\ pc = "draw"
    /\ evt = "init"
    /\ tested = <<>>
    /\ since = SinceNone(FALSE)

NextFree == MainStep \/ FreeHalted \/ FreePass

SpecFree == InitFree /\ [][NextFree]_vars /\ WF_vars(NextFree)

(***************************************************************************)
(* SpecText: the debugger with a `b <expression>` line typed and Enter     *)
(* pending, for well-formed expressions and for damaged ones; the user     *)
(* then types the breakpoint again as the list of breakpoints shows it.    *)
(***************************************************************************)
\* expressions of one hook without children
LeafTexts ==
    {"line(1)", "read(a)", "write(ip)", "unique(e)", "eq(a, 1)", "gte(ip, 100)",
     "lt(b, 0)"}

\* well-formed expressions: a leaf, not and all of one leaf, all of a leaf and
\* one of two others, and two of depth two
WellFormedTexts ==
    LeafTexts
    \cup {"not(" \o e \o ")" : e \in LeafTexts}
    \cup {"all(" \o e \o ")" : e \in LeafTexts}
    \cup {"all(" \o e \o ", " \o f \o ")" : e \in LeafTexts, f \in {"line(1)", "lt(e, 2)"}}
    \cup {"all(line(28), line(40))", "all(line(28), not(read(a)))"}

\* s without its character i
DeleteAt(s, i) == SubSeq(s, 1, i - 1) \o SubSeq(s, i + 1, Len(s))

\* what is typed after a well-formed expression
Suffixes == {")", " x", ", line(1)", "!", " ", "("}

\* expressions with a wrong name, a wrong number of arguments, or a token of
\* the wrong kind
IllFormedTexts ==
    {"line(1, 1)", "read(a, b)", "eq(a)", "eq(a, 1, 1)", "not(line(1), line(1))",
     "all()", "foo(1)", "line(a)", "read(1)", "eq(1, a)", "Line(1)", "line(-1)",
     "read(g)", "line", "(line(1))", ""}

\* the expressions typed: the well-formed ones, each of them with one character
\* left out or with something typed after it, and the ill-formed ones
ParseInputs ==
    WellFormedTexts
    \cup UNION {{DeleteAt(e, i) : i \in 1..Len(e)} : e \in WellFormedTexts}
    \cup {e \o x : e \in WellFormedTexts, x \in Suffixes}
    \cup IllFormedTexts

InitText ==
    /\ \E path \in {"a", "i"} : device = LoadPath(DefaultDevice, path).d
    /\ interactive = TRUE
    /\ hooks = <<>>
    /\ \E text \in ParseInputs : input = "b " \o text
    /\ last = None
    /\ messages = <<>>
    /\ keys = <<Char("\n")>>
    /\ pc = "draw"
    /\ evt = "char"
    /\ tested = <<>>
    /\ since = SinceNone(TRUE)
    /\ log = [reset |-> FALSE, tests |-> <<>>]

\* the list of breakpoints shows the hook with Hook::display, and the user
\* types `b` and what it shows
RetypeDisplayed ==
    /\ pc = "draw" /\ keys = <<>> /\ input = "" /\ Len(hooks) = 1
    /\ keys' = Entered("b " \o HookDisplay(hooks[1], device))
    /\ UNCHANGED <<device, interactive, hooks, input, last, messages, pc, evt, tested,
                   since, log>>

NextText == CmdBreak \/ KeyChar \/ RetypeDisplayed

SpecText == InitText /\ [][NextText]_vars

(***************************************************************************)
(* Properties of the device                                                *)
(***************************************************************************)
\* the transition is the operation of the program that `evt` names e (the user
\* only ever adds keys to the channel)
Did(e) == evt' = e /\ Len(keys') <= Len(keys)

\* the transition is an operation of the program
ProgramStep == Len(keys') <= Len(keys)

\* the value in the cell of the ip register: the IP a step of d fetches with
FetchIp(d) == d.registers.registers[d.registers.ip + 1]

\* a step of d finds an instruction at its IP
Executes(d) == FetchIp(d) >= 0 /\ FetchIp(d) < Len(d.instructions)

\* the instruction a step of d executes
Fetched(d) == d.instructions[FetchIp(d) + 1]

\* the operand positions an op code treats as registers, by its name: a
\* comparison names the kinds of both operands; of the others, only seti takes
\* an immediate first, and the last letter is the kind of the second operand
\* (that set* ignores)
FirstIsRegister(op) ==
    LET name == OpCodeDisplay(op)
    IN  IF SubSeq(name, 1, 2) \in {"gt", "eq"} THEN SubSeq(name, 3, 3) = "r"
        ELSE name # "seti"
SecondIsRegister(op) ==
    LET name == OpCodeDisplay(op)
    IN  SubSeq(name, 1, 3) # "set" /\ SubSeq(name, 4, 4) = "r"

\* the value the instruction computes on the cells of d
Computed(inst, d) ==
    LET cell(x) == d.registers.registers[x + 1]
        x == IF FirstIsRegister(inst.op_code) THEN cell(inst.inputs[1]) ELSE inst.inputs[1]
        y == IF SecondIsRegister(inst.op_code) THEN cell(inst.inputs[2]) ELSE inst.inputs[2]
    IN  OpValue(inst.op_code, x, y)

\* the program `#ip 0` / `seti 5 0 0`
ProgramA == <<[op_code |-> "Seti", inputs |-> <<5, 0>>, output |-> 0]>>

\* C1, as the claim states it: every Device::step call that returns success
\* increases count by exactly one, the step that sets halted included.
C1_CountOnEverySuccess ==
    [][Did("step") => device'.count = device.count + 1]_vars

\* C1: a Device::step call that returns success increases count by exactly one
\* when it executes an instruction and leaves count as it is when it finds no
\* instruction at the IP and sets halted; for the program `#ip 0` / `seti 5 0 0`
\* count = 1 after the first step and still 1 after the second, which halts.
C1_CountPerInstruction ==
    [][Did("step") =>
        /\ Executes(device) => device'.count = device.count + 1
        /\ ~Executes(device) => device'.count = device.count /\ device'.halted
        /\ device.instructions = ProgramA /\ device.registers.ip = 0
           /\ device.count = 1 /\ FetchIp(device) = 6
              => device'.halted /\ device'.count = 1]_vars

\* C1: the second step of `#ip 0` / `seti 5 0 0` has halted the device, count 1
C1_Witness ==
    /\ evt = "step" /\ device.instructions = ProgramA /\ device.registers.ip = 0
    /\ device.halted /\ device.count = 1 /\ FetchIp(device) = 6

\* C2: after a step that executes an instruction, last_ip is the IP the
\* instruction was fetched with, and the cell of the ip register is last_ip + 1,
\* or the value the instruction wrote plus 1 when its output is the ip register.
C2_LastIpAndIncrement ==
    [][Did("step") /\ Executes(device) =>
        LET inst == Fetched(device)
            ipr == device.registers.ip
        IN  /\ device'.registers.last_ip = Some(FetchIp(device))
            /\ device'.registers.registers[ipr + 1] =
                  IF inst.output = ipr THEN Computed(inst, device) + 1
                  ELSE FetchIp(device) + 1]_vars

\* C2: a step has executed an instruction whose output is the ip register, and
\* the cell of the ip register is not last_ip + 1
C2_Witness ==
    /\ evt = "step" /\ device.registers.last_ip = Some(0)
    /\ device.instructions[1].output = device.registers.ip
    /\ device.instructions[1].op_code = "Addi"
    /\ FetchIp(device) = 3

\* C3: after clear() and a step that executes (op, a, b, o), read_set is
\* exactly the operands op treats as registers and written_set is exactly {o};
\* the fetch and the increment of the IP add nothing, so a hook write(ip) fires
\* exactly when o is the ip register.
C3_TrackingSets ==
    [][Did("step") /\ Executes(device) =>
        LET inst == Fetched(device)
            ipr == device.registers.ip
        IN  /\ device'.registers.read =
                  (IF FirstIsRegister(inst.op_code) THEN {inst.inputs[1]} ELSE {})
                  \cup (IF SecondIsRegister(inst.op_code) THEN {inst.inputs[2]} ELSE {})
            /\ device'.registers.written = {inst.output}
            /\ (HookTest(HookWrite(ipr), device').action = "Pause") = (inst.output = ipr)
            /\ (HookTest(HookRead(ipr), device').action = "Pause") =
                  (\/ FirstIsRegister(inst.op_code) /\ inst.inputs[1] = ipr
                   \/ SecondIsRegister(inst.op_code) /\ inst.inputs[2] = ipr)]_vars

\* C3: a step has executed `gtir 1 2 0` with ip register 1: the immediate 1 and
\* the ip register are not read, register 2 is, and register 0 is written
C3_Witness ==
    /\ evt = "step" /\ device.registers.ip = 1 /\ device.count = 1
    /\ device.instructions = <<[op_code |-> "Gtir", inputs |-> <<1, 2>>, output |-> 0]>>
    /\ device.registers.read = {2} /\ device.registers.written = {0}

\* the reference semantics of the op codes: the value of (op, a, b) on the
\* cells R
ReferenceValue(op, R, a, b) ==
    CASE op = "Addr" -> R[a + 1] + R[b + 1]
      [] op = "Addi" -> R[a + 1] + b
      [] op = "Mulr" -> R[a + 1] * R[b + 1]
      [] op = "Muli" -> R[a + 1] * b
      [] op = "Banr" -> BitAnd(R[a + 1], R[b + 1])
      [] op = "Bani" -> BitAnd(R[a + 1], b)
      [] op = "Borr" -> BitOr(R[a + 1], R[b + 1])
      [] op = "Bori" -> BitOr(R[a + 1], b)
      [] op = "Setr" -> R[a + 1]
      [] op = "Seti" -> a
      [] op = "Gtir" -> IF a > R[b + 1] THEN 1 ELSE 0
      [] op = "Gtri" -> IF R[a + 1] > b THEN 1 ELSE 0
      [] op = "Gtrr" -> IF R[a + 1] > R[b + 1] THEN 1 ELSE 0
      [] op = "Eqir" -> IF a = R[b + 1] THEN 1 ELSE 0
      [] op = "Eqri" -> IF R[a + 1] = b THEN 1 ELSE 0
      [] op = "Eqrr" -> IF R[a + 1] = R[b + 1] THEN 1 ELSE 0

\* C24: for every op code and in-range operands, apply leaves in register o the
\* reference value computed from the cells before the write, also when o is a
\* or b, and leaves every other cell as it was: the cells after a step that
\* executes (op, a, b, o) are the cells before it with the reference value in
\* cell o, and then the cell of the ip register incremented.
C24_ApplyReference ==
    [][Did("step") /\ Executes(device) =>
        LET inst == Fetched(device)
            R == device.registers.registers
            applied == [R EXCEPT ![inst.output + 1] =
                           ReferenceValue(inst.op_code, R, inst.inputs[1], inst.inputs[2])]
        IN  device'.registers.registers =
                [applied EXCEPT ![device.registers.ip + 1] = @ + 1]]_vars

\* a step has executed `addr 2 2 2` on a cell 2 that held 1
C24_Witness ==
    /\ evt = "step" /\ device.count = 1 /\ device.registers.ip = 4
    /\ device.instructions = <<[op_code |-> "Addr", inputs |-> <<2, 2>>, output |-> 2]>>
    /\ device.registers.registers = <<0, 0, 2, 0, 1, 0>>

(***************************************************************************)
(* Properties of the control loop                                          *)
(***************************************************************************)
\* what the hook language says of a hook line(n) or write(reg): it fires when
\* last_ip is n, or when reg is in the written set
Fires(h, d) ==
    CASE h.kind = "Line" -> d.registers.last_ip = Some(h.line)
      [] h.kind = "Write" -> h.reg \in d.registers.written

\* the command that the key '\n' at the head of the channel enters is in names
Entering(names) ==
    /\ pc = "draw" /\ interactive /\ keys # <<>> /\ Head(keys) = Char("\n")
    /\ EnterLast # None /\ Command \in names

\* C4: halted is true exactly when the most recent Device::step found no
\* instruction at the IP: a step sets halted exactly when the IP is past the
\* program, reset and load set it back to false, and nothing else changes it.
C4_HaltedIffStepPastEnd ==
    [][/\ Did("step") => (device'.halted = ~Executes(device))
       /\ Did("reset") \/ Did("load") => ~device'.halted
       /\ device'.halted # device.halted => Did("step") \/ Did("reset") \/ Did("load")]_vars

\* C4: a step has found the IP past the program and has set halted
C4_Witness ==
    /\ evt = "step" /\ device.halted /\ ~Executes(device)
    /\ device.registers.last_ip = Some(1) /\ device.count = 2

\* C5, as the claim states it: once halted, read_set and written_set remain
\* empty, `set` commands included.
C5_TrackingSetsStayEmpty ==
    device.halted => device.registers.read = {} /\ device.registers.written = {}

\* C5: once halted is true the control loop calls Device::step no more, and
\* last_ip, count, unique and the program are unchanged and read_set stays
\* empty until a reset or a load; a `set` entered while halted assigns its
\* cell and adds the register to written_set, and nothing else changes the
\* cells or written_set.
C5_HaltedFrozenButForSet ==
    [][device.halted =>
        /\ ~Did("step") /\ ~Did("step_fail")
        /\ device.registers.read = {}
        /\ ~device'.halted => Did("reset") \/ Did("load")
        /\ device'.halted =>
              /\ device'.registers.last_ip = device.registers.last_ip
              /\ device'.count = device.count
              /\ device'.unique = device.unique
              /\ device'.instructions = device.instructions
              /\ device'.registers.read = {}
              /\ Did("set") =>
                    \E reg \in RegIndex :
                       /\ device'.registers.written = device.registers.written \cup {reg}
                       /\ \A i \in RegIndex \ {reg} :
                             device'.registers.registers[i + 1] =
                                device.registers.registers[i + 1]
              /\ ~Did("set") => device' = device]_vars

\* C5: `set a 1` was entered on a halted device: register a is in written_set
C5_Witness ==
    /\ evt = "set" /\ device.halted
    /\ device.registers.written = {0} /\ device.registers.registers[1] = 1

\* C6, as the claim states it: after every successful step, of the `step`
\* command or of the Free mode, the hooks are evaluated before the next step:
\* no two steps are taken with hooks in the list and no evaluation in between.
C6_EveryStepEvaluated == since.due < 2

\* C6: the hooks are evaluated only after a step taken in Free mode: every
\* hook of the list once, in list order, against the device that step left;
\* after such a step the loop evaluates them before it does anything else,
\* unless the device is halted or the key polled is `q` or `p`; after the step
\* of the `step` command the loop evaluates no hook.
C6_FreeStepEvaluated ==
    [][/\ Did("pass") =>
             /\ evt = "step" /\ ~interactive /\ ~device.halted
             /\ Len(tested') = Len(hooks)
             /\ \A i \in 1..Len(hooks) :
                   (tested'[i] = "Pause") = Fires(hooks[i], device)
       /\ evt = "step" /\ pc = "draw" /\ ~interactive /\ ProgramStep =>
             \/ Did("pass")
             \/ Did("free_halted") /\ device.halted
             \/ Did("free_quit") /\ Head(keys) = Char("q")
             \/ Did("free_pause") /\ Head(keys) = Char("p")
       /\ evt = "step" /\ interactive /\ ProgramStep =>
             /\ ~Did("pass") /\ ~Did("step")
             /\ tested' = tested]_vars

\* C6: a step of the Free mode was followed by the pass over the hooks
\* line(1), write(a): the first did not fire, the second did
C6_Witness ==
    /\ evt = "pass" /\ hooks = <<HookLine(1), HookWrite(0)>>
    /\ tested = <<"None", "Pause">> /\ device.registers.last_ip = Some(0)

\* C7: in Free mode a pass over the hooks in which a hook returns Pause makes
\* the mode interactive and returns to the commands, from where only `step`
\* and `continue` lead to a step; a pass in which no hook pauses leads to one
\* clear() and one step(), and between two passes of a free run exactly one
\* step is taken.
C7_PauseStopsStepping ==
    [][/\ Did("pass") =>
             /\ interactive' = (\E i \in 1..Len(tested') : tested'[i] = "Pause")
             /\ pc' = IF interactive' THEN "draw" ELSE "step"
             /\ ~since.inter => since.steps = 1
       /\ pc # "step" /\ pc' = "step" =>
             \/ Did("pass") /\ ~interactive'
             \/ Did("step_cmd") \/ Did("continue")
       /\ pc = "step" /\ ProgramStep =>
             /\ Did("step") /\ pc' = "draw"
             /\ Executes(device) =>
                   /\ device'.count = device.count + 1
                   /\ device'.registers.written = {Fetched(device).output}]_vars

\* C7: a pass over the hooks in which line(1) returned Pause: the mode is
\* interactive and the loop is back at the commands
C7_Witness ==
    /\ evt = "pass" /\ hooks = <<HookLine(1)>> /\ tested = <<"Pause">>
    /\ interactive /\ pc = "draw" /\ device.registers.last_ip = Some(1)

\* C8: a halted device forces the Free mode into the interactive mode before a
\* key is polled or a hook evaluated; `step` and `continue` are refused with an
\* error message while halted; Device::step is never called on a halted device.
C8_NeverStepsHalted ==
    [][/\ pc' = "step" => ~device'.halted
       /\ Did("step") \/ Did("step_fail") => ~device.halted
       /\ device.halted /\ pc = "draw" /\ ~interactive /\ ProgramStep =>
             /\ Did("free_halted") /\ interactive' /\ pc' = "draw"
             /\ keys' = keys /\ hooks' = hooks /\ tested' = tested /\ device' = device
       /\ device.halted /\ Entering({"s", "step", "c", "continue"}) /\ ProgramStep =>
             /\ Did("step_refused") \/ Did("continue_refused")
             /\ messages' # <<>> /\ messages'[Len(messages')].level = "Error"
             /\ pc' = "draw" /\ interactive' /\ device' = device]_vars

\* C8: the device halted in Free mode with a key in the channel and a hook in
\* the list: the mode was made interactive, and the key is still in the channel
C8_Witness ==
    /\ evt = "free_halted" /\ device.halted /\ interactive
    /\ keys # <<>> /\ hooks # <<>>

\* C9: in the interactive mode a step is taken only for the `step` command:
\* the command, on a device that is not halted, leads to one clear() and
\* step(), after which the mode is still interactive whatever the hooks would
\* return, and no hook is evaluated; only `continue` leaves the mode.
C9_InteractiveStepsOnRequest ==
    [][/\ interactive /\ ~interactive' => Did("continue")
       /\ interactive /\ pc = "draw" /\ pc' = "step" => Did("step_cmd") \/ Did("continue")
       /\ Did("step_cmd") =>
             /\ Entering({"s", "step"}) /\ ~device.halted
             /\ pc' = "step" /\ interactive' /\ device' = device
       /\ interactive /\ pc = "step" /\ ProgramStep =>
             /\ evt = "step_cmd" /\ Did("step")
             /\ pc' = "draw" /\ interactive'
             /\ hooks' = hooks /\ tested' = tested
             /\ Executes(device) => device'.count = device.count + 1
       /\ interactive /\ Did("pass") => FALSE]_vars

\* C9: the step of a `step` command left a device on which the hook line(1)
\* fires, and the mode is interactive
C9_Witness ==
    /\ evt = "step" /\ interactive /\ pc = "draw"
    /\ hooks # <<>> /\ hooks[1] = HookLine(1) /\ Fires(hooks[1], device)

(***************************************************************************)
(* Properties of the hooks                                                 *)
(***************************************************************************)
\* the values of the tests 1..n of the log
ValuesTested(n) == {log.tests[j].value : j \in 1..n}

\* the tests of the log that returned Pause
Paused == {i \in 1..Len(log.tests) : log.tests[i].action = "Pause"}

\* C10: a hook unique(r) returns Pause exactly when the value of r is not in
\* its seen set, inserting it and recording it as last, and None otherwise: of
\* the tests since its creation or its last reset, those that pause are the
\* first of each distinct value; Hook::reset empties the seen set. On the
\* values 0, 1, 2, 1, 0 it pauses at tests 1, 2, 3 and not at 4 or 5.
C10_UniquePausesOncePerValue ==
    /\ \A i \in 1..Len(log.tests) :
          (log.tests[i].action = "Pause") = (log.tests[i].value \notin ValuesTested(i - 1))
    /\ hooks[1].seen = ValuesTested(Len(log.tests))
    /\ Cardinality(Paused) = Cardinality(hooks[1].seen)
    /\ Paused # {} =>
          hooks[1].last = Some(log.tests[CHOOSE i \in Paused : \A j \in Paused : j <= i].value)
    /\ evt = "reset" => hooks[1].seen = {}
    /\ [i \in 1..Len(log.tests) |-> log.tests[i].value] = <<0, 1, 2, 1, 0>> =>
          [i \in 1..Len(log.tests) |-> log.tests[i].action]
             = <<"Pause", "Pause", "Pause", "None", "None">>

\* C10: after a reset, the hook was tested on the values 0, 1, 2, 1, 0
C10_Witness ==
    /\ log.reset /\ evt = "test" /\ Len(log.tests) = 5
    /\ [i \in 1..5 |-> log.tests[i].value] = <<0, 1, 2, 1, 0>>
    /\ hooks[1].seen = {0, 1, 2} /\ hooks[1].last = Some(2)


(***************************************************************************)
(* Properties of Hook::test and Hook::reset                                *)
(***************************************************************************)
\* every Unique node of the tree of h has an empty seen set and no last value
RECURSIVE UniqueCleared(_)
UniqueCleared(h) ==
    CASE h.kind = "Unique" -> h.seen = {} /\ h.last = None
      [] h.kind = "Not" -> UniqueCleared(h.inner)
      [] h.kind = "All" -> \A i \in 1..Len(h.hooks) : UniqueCleared(h.hooks[i])
      [] OTHER -> TRUE

\* C11: after Hook::reset on a hook, every Unique node reachable through its
\* Not and All children, at any depth, has an empty seen set and an absent last
\* value.
C11_ResetClearsEveryUnique == evt = "reset" => UniqueCleared(hooks[1])


RECURSIVE AfterHooks(_, _, _)
AfterHooks(hs, i, d) ==
    IF i = 0 THEN d ELSE HookTest(hs[i], AfterHooks(hs, i - 1, d)).d

\* the value Registers::reg returns for register reg of device d
Cell(d, reg) == d.registers.registers[reg + 1]

\* C13: `break` appends to the list, and a pass of the Free mode tests every
\* hook of the list once, in the order of the list, each against the device as
\* the tests before it left it, whether or not an earlier hook returned Pause:
\* the hooks and the device take the side effects of every test, and the mode
\* becomes Interactive exactly when some hook returned Pause.
C13_EveryHookTested ==
    [][/\ Did("break") => hooks = SubSeq(hooks', 1, Len(hooks))
       /\ Did("pass") =>
             /\ Len(tested') = Len(hooks) /\ Len(hooks') = Len(hooks)
             /\ \A i \in 1..Len(hooks) :
                   /\ tested'[i] = HookTest(hooks[i], AfterHooks(hooks, i - 1, device)).action
                   /\ hooks'[i] = HookTest(hooks[i], AfterHooks(hooks, i - 1, device)).hook
             /\ device' = AfterHooks(hooks, Len(hooks), device)
             /\ interactive' = (\E i \in 1..Len(hooks) : tested'[i] = "Pause")]_vars

\* C13: a pass where eq(a, 3) paused and the hook unique(a) after it was tested
\* all the same
C13_Witness ==
    /\ evt = "pass" /\ Len(hooks) = 2 /\ tested = <<"Pause", "Pause">>
    /\ hooks[1].kind = "Op" /\ hooks[2].kind = "Unique"
    /\ hooks[2].seen = {3} /\ interactive

\* C14, as the claim states it: on a pass where an earlier hook of the list
\* returns Pause, a Unique hook placed after it is not evaluated and is left as
\* it was.
C14_UniqueAfterPauseSkipped ==
    [][Did("pass") =>
          \A i \in 1..Len(hooks), j \in 1..Len(hooks) :
             i < j /\ tested'[i] = "Pause" /\ hooks[j].kind = "Unique" =>
                hooks'[j] = hooks[j]]_vars

\* C14: the loop over the hooks does not stop at a Pause: on a pass where an
\* earlier hook of the list returns Pause, a Unique hook placed after it is
\* evaluated all the same: the value of its register is in its seen set after
\* the pass, and it returns Pause, with that value as last, exactly when the
\* value was not in the set before.
C14_UniqueAfterPauseTested ==
    [][Did("pass") =>
          \A i \in 1..Len(hooks), j \in 1..Len(hooks) :
             i < j /\ tested'[i] = "Pause" /\ hooks[j].kind = "Unique" =>
                /\ Len(tested') = Len(hooks)
                /\ hooks'[j].seen = hooks[j].seen \cup {Cell(device, hooks[j].reg)}
                /\ (tested'[j] = "Pause") = (Cell(device, hooks[j].reg) \notin hooks[j].seen)
                /\ tested'[j] = "Pause" => hooks'[j].last = Some(Cell(device, hooks[j].reg))
                /\ tested'[j] = "None" => hooks'[j] = hooks[j]]_vars

\* C14: a pass after the instruction of line 1, where line(1) paused and the
\* hook unique(a) after it took the value 4 of register a
C14_Witness ==
    /\ evt = "pass" /\ Len(hooks) = 2 /\ tested = <<"Pause", "Pause">>
    /\ hooks[1].kind = "Line" /\ hooks[2].kind = "Unique"
    /\ hooks[2].seen = {3, 4} /\ hooks[2].last = Some(4)

\* hook k of the list is Read(r) and a hook before it is an Op or a Unique on r
ReadAfterTest(hs, k) ==
    /\ hs[k].kind = "Read"
    /\ \E j \in 1..(k - 1) : hs[j].kind \in {"Op", "Unique"} /\ hs[j].reg = hs[k].reg

\* C15: the test of an Op or a Unique hook on register r reads r through
\* Registers::reg, so r is in read_set after the pass; a hook Read(r) later in
\* the list returns Pause on that pass, whether or not the instruction executed
\* read r, and a hook Read(r) with no such hook before it returns Pause exactly
\* when r was in read_set when the pass began.
C15_HookReadsAreTracked ==
    [][Did("pass") =>
          \A k \in 1..Len(hooks) :
             /\ hooks[k].kind \in {"Op", "Unique"} =>
                   hooks[k].reg \in device'.registers.read
             /\ ReadAfterTest(hooks, k) => tested'[k] = "Pause"
             /\ hooks[k].kind = "Read" /\ ~ReadAfterTest(hooks, k) =>
                   (tested'[k] = "Pause") = (hooks[k].reg \in device.registers.read)]_vars

\* C15: after `seti 3 0 0`, which reads no register, the hook read(a) paused
\* because unique(a) was tested before it
C15_Witness ==
    /\ evt = "pass" /\ Len(hooks) = 2
    /\ hooks[1].kind = "Unique" /\ hooks[2].kind = "Read" /\ hooks[2].reg = hooks[1].reg
    /\ tested[2] = "Pause"
    /\ device.registers.last_ip = Some(0)
    /\ device.instructions[1].op_code = "Seti"
    /\ device.registers.read = {0}

\* the signed value a relates to b under the comparison cmp
Relates(cmp, a, b) ==
    CASE cmp = "Eq" -> a = b
      [] cmp = "Lt" -> a < b
      [] cmp = "Lte" -> a < b \/ a = b
      [] cmp = "Gt" -> b < a
      [] cmp = "Gte" -> ~(a < b)

\* C16: Hook::test on a leaf hook returns Pause exactly when: Read(r): r is in
\* read_set; Write(r): r is in written_set; Line(n): last_ip is Some(n), never
\* when last_ip is absent; Op(cmp, r, v): the value of r, as a signed integer,
\* relates to v under cmp. Read, Write and Line leave the device and the hook
\* as they were; Op leaves the hook and the cells as they were.
C16_LeafHooks ==
    [][evt' = "test" =>
          LET h == hooks[1]
              pause == tested'[1] = "Pause"
          IN  /\ tested'[1] \in {"Pause", "None"}
              /\ h.kind = "Read" => pause = (h.reg \in device.registers.read)
              /\ h.kind = "Write" => pause = (h.reg \in device.registers.written)
              /\ h.kind = "Line" =>
                    /\ pause = (device.registers.last_ip = Some(h.line))
                    /\ device.registers.last_ip = None => ~pause
              /\ h.kind \in {"Read", "Write", "Line"} =>
                    device' = device /\ hooks' = hooks
              /\ h.kind = "Op" =>
                    /\ pause = Relates(h.op, Cell(device, h.reg), h.value)
                    /\ hooks' = hooks
                    /\ device'.registers.registers = device.registers.registers]_vars

\* C16: lt(b, 0) paused on a negative value of register b
C16_Witness ==
    /\ evt = "test" /\ hooks[1].kind = "Op" /\ hooks[1].op = "Lt"
    /\ hooks[1].value = 0 /\ Cell(device, hooks[1].reg) = -1
    /\ tested = <<"Pause">>

\* the instructions of the program `b`: `#ip 5`, `seti 3 0 0`, `addi 0 1 0`
ProgramB ==
    <<[op_code |-> "Seti", inputs |-> <<3, 0>>, output |-> 0],
      [op_code |-> "Addi", inputs |-> <<0, 1>>, output |-> 0]>>

\* C17: on the program `#ip 5` / `seti 3 0 0` / `addi 0 1 0`, from a fresh
\* device: the first step executes line 0, the second leaves cells[0] = 4,
\* cells[5] = 2, last_ip = Some(1) and halted = false, and the third sets
\* halted; a hook line(1) returns None on the pass after the first step and
\* Pause on the pass after the second: it sees the instruction just executed.
C17_ScenarioTwo ==
    [][device.instructions = ProgramB /\ device.registers.ip = 5 =>
          /\ Did("step") /\ device.count = 0 =>
                /\ device'.count = 1 /\ ~device'.halted
                /\ Cell(device', 0) = 3 /\ Cell(device', 5) = 1
                /\ device'.registers.last_ip = Some(0)
          /\ Did("step") /\ device.count = 1 =>
                /\ device'.count = 2 /\ ~device'.halted
                /\ Cell(device', 0) = 4 /\ Cell(device', 5) = 2
                /\ device'.registers.last_ip = Some(1)
          /\ Did("step") /\ device.count = 2 => device'.halted
          /\ Did("pass") =>
                \A i \in 1..Len(hooks) :
                   hooks[i] = HookLine(1) =>
                      /\ device.count \in {1, 2}
                      /\ (tested'[i] = "Pause") = (device.count = 2)]_vars

\* C17: the pass after the second step, where line(1) paused
C17_Witness ==
    /\ evt = "pass" /\ device.instructions = ProgramB /\ device.count = 2
    /\ hooks # <<>> /\ hooks[1] = HookLine(1) /\ tested[1] = "Pause"
    /\ Cell(device, 0) = 4 /\ Cell(device, 5) = 2 /\ ~device.halted

\* the children of an All that are tested: up to the first that returns None
\* when tested after the children before it, all of them when none does
Evaluated(cs, d) ==
    LET none == {i \in 1..Len(cs) :
                    HookTest(cs[i], AfterHooks(cs, i - 1, d)).action = "None"}
    IN  IF none = {} THEN Len(cs) ELSE CHOOSE i \in none : \A j \in none : i <= j

\* C18: All(children) tests its children in order, each against the device as
\* the children before it left it, and stops at the first that returns None:
\* it returns Pause exactly when every child returned Pause, the children
\* after the first None are left as they were (the seen set of a Unique child
\* included), and the device takes the reads of the children tested only.
C18_AllStopsAtFirstNone ==
    [][evt' = "test" /\ hooks[1].kind = "All" =>
          LET cs == hooks[1].hooks
              n == Evaluated(cs, device)
          IN  /\ hooks'[1].kind = "All" /\ Len(hooks'[1].hooks) = Len(cs)
              /\ (tested'[1] = "Pause") =
                    (\A i \in 1..Len(cs) :
                        HookTest(cs[i], AfterHooks(cs, i - 1, device)).action = "Pause")
              /\ (tested'[1] = "None") =
                    (HookTest(cs[n], AfterHooks(cs, n - 1, device)).action = "None")
              /\ \A i \in 1..n :
                    hooks'[1].hooks[i] = HookTest(cs[i], AfterHooks(cs, i - 1, device)).hook
              /\ \A i \in (n + 1)..Len(cs) : hooks'[1].hooks[i] = cs[i]
              /\ device' = AfterHooks(cs, n, device)]_vars

\* C18: all(eq(a, 1), unique(b)) was tested with a = 0 in a device that had
\* not read b: eq returned None, unique(b) was not tested and b was not read
C18_Witness ==
    /\ evt = "test" /\ hooks[1].kind = "All" /\ Len(hooks[1].hooks) = 2
    /\ hooks[1].hooks[1].kind = "Op" /\ hooks[1].hooks[2].kind = "Unique"
    /\ tested = <<"None">>
    /\ hooks[1].hooks[2].seen = {} /\ hooks[1].hooks[2].last = None
    /\ device.registers.read = {0}

\* C19: Not(inner) tests inner and inverts its Action: it returns Pause exactly
\* when the test of inner returns None, and the hook and the device take the
\* side effects of that test. not(unique(r)) inserts the value of r into the
\* seen set at every test, and returns Pause exactly when the value was in the
\* set already.
C19_NotInverts ==
    [][evt' = "test" /\ hooks[1].kind = "Not" =>
          LET inner == hooks[1].inner
              t == HookTest(inner, device)
          IN  /\ (tested'[1] = "Pause") = (t.action = "None")
              /\ (tested'[1] = "None") = (t.action = "Pause")
              /\ hooks'[1] = HookNot(t.hook)
              /\ device' = t.d
              /\ inner.kind = "Unique" =>
                    /\ hooks'[1].inner.seen = inner.seen \cup {Cell(device, inner.reg)}
                    /\ (tested'[1] = "Pause") = (Cell(device, inner.reg) \in inner.seen)
                    /\ inner.reg \in device'.registers.read]_vars

\* C19: not(unique(a)) was tested on the value 0, then on 1, then on 1 again,
\* where it paused
C19_Witness ==
    /\ evt = "test" /\ hooks[1].kind = "Not" /\ hooks[1].inner.kind = "Unique"
    /\ tested = <<"Pause">>
    /\ hooks[1].inner.seen = {0, 1} /\ hooks[1].inner.last = Some(1)
    /\ Cell(device, hooks[1].inner.reg) = 1

\* C20: the name `ip` of a breakpoint expression is resolved when the
\* expression is parsed, to the ip_index of the device at that moment, and the
\* hook holds a plain register index: `gt(ip, 100)` parsed with ip_index = 4 is
\* Op(Gt, 4, 100); a later load, whatever ip_index it sets, leaves every hook
\* as it is, and a pass reads the register the hook holds.
C20_IpResolvedAtParse ==
    [][/\ Did("break") /\ Argument = Some("gt(ip, 100)") =>
             /\ hooks' = Append(hooks, HookOp("Gt", device.registers.ip, 100))
             /\ device.registers.ip = 4 => hooks'[Len(hooks')] = HookOp("Gt", 4, 100)
             /\ Parse("gt(ip, 100)", device).hook = HookOp("Gt", device.registers.ip, 100)
       /\ Did("break") /\ Argument = Some("unique(ip)") =>
             hooks' = Append(hooks, HookUnique(device.registers.ip))
       /\ Did("load") => hooks' = hooks
       /\ \A k \in 1..Len(hooks) :
             /\ Len(hooks') >= k /\ hooks'[k].kind = hooks[k].kind
             /\ hooks'[k].reg = hooks[k].reg
             /\ Did("pass") => hooks[k].reg \in device'.registers.read]_vars

\* C20: `gt(ip, 100)` was parsed with ip_index = 4, program `b` with `#ip 5`
\* was loaded after that, and a pass has read register 4 for the hook
C20_Witness ==
    /\ evt = "pass" /\ hooks # <<>> /\ hooks[1] = HookOp("Gt", 4, 100)
    /\ device.registers.ip = 5 /\ device.instructions = ProgramB
    /\ 4 \in device.registers.read


(***************************************************************************)
(* Properties of the loader                                                *)
(***************************************************************************)
\* the first piece of line i of the lines last loaded
FirstToken(i) == Head(Split(log.lines[i]))

\* C23: OpCode::decode of the name Display writes for an op code is that op
\* code, for all sixteen, and decode of any other token is None; a loaded line
\* of the name and three operands is an instruction of that op code.
C23_DecodeInvertsDisplay ==
    /\ \A op \in OpCodes :
          /\ OpCodeDecode(OpCodeDisplay(op)) = Some(op)
          /\ evt = "load" /\ log.lines = <<OpCodeDisplay(op) \o " 1 2 0">> =>
                device.instructions = <<[op_code |-> op, inputs |-> <<1, 2>>, output |-> 0]>>
    /\ \A i \in 1..Len(log.lines) :
          FirstToken(i) \notin {OpCodeDisplay(op) : op \in OpCodes} =>
              OpCodeDecode(FirstToken(i)) = None

\* `eqrr 1 2 0` was loaded as an instruction of the op code Eqrr
C23_Witness ==
    /\ evt = "load" /\ log.lines = <<"eqrr 1 2 0">>
    /\ device.instructions = <<[op_code |-> "Eqrr", inputs |-> <<1, 2>>, output |-> 0]>>

\* the line is an `#ip` directive
IsDirective(line) == StartsWith(line, "#ip")

\* the argument of the directive: the second piece of the line, if any
DirectiveArgument(line) == IF Len(Split(line)) < 2 THEN None ELSE Some(Split(line)[2])

\* C25: ip_index is in [0,5] in every reachable state of the device: a load
\* with a directive `#ip N` whose N is not an integer of [0,5] is rejected, and
\* no load leaves ip_index outside that range.
C25_IpIndexInRange ==
    [][Did("load") \/ Did("load_fail") =>
        /\ device'.registers.ip \in RegIndex
        /\ (\E i \in 1..Len(log'.lines) :
               /\ IsDirective(log'.lines[i])
               /\ \A n \in RegIndex :
                     DirectiveArgument(log'.lines[i]) # Some(NatToString(n)))
           => Did("load_fail")]_vars

\* the instructions of the lines that are not directives, in their order
DecodedLines(lines) ==
    LET code == SelectSeq(lines, LAMBDA l : ~IsDirective(l))
    IN  [i \in 1..Len(code) |-> InstructionDecode(code[i])[1]]

\* the indices of the directives among the lines
Directives(lines) == {i \in 1..Len(lines) : IsDirective(lines[i])}

\* C26: a successful load leaves the device reset (cells zero, tracking sets
\* empty, last_ip absent, halted false, count 0, unique empty) with the decoded
\* non-directive lines as its instructions, in order; ip_index is the N of the
\* last `#ip N` of the input, and is what it was when the input has none.
C26_LoadResult ==
    [][Did("load") =>
        LET lines == log'.lines
            last_directive == CHOOSE i \in Directives(lines) :
                                 \A j \in Directives(lines) : j <= i
        IN  /\ device'.registers.registers = [i \in 1..6 |-> 0]
            /\ device'.registers.read = {} /\ device'.registers.written = {}
            /\ device'.registers.last_ip = None
            /\ ~device'.halted /\ device'.count = 0 /\ device'.unique = {}
            /\ device'.instructions = DecodedLines(lines)
            /\ Directives(lines) = {} => device'.registers.ip = device.registers.ip
            /\ Directives(lines) # {} =>
                  DirectiveArgument(lines[last_directive])
                     = Some(NatToString(device'.registers.ip))]_vars

\* `#ip 1`, `addi 0 1 0`, `#ip 4`, `seti -1 0 1` was loaded: two instructions,
\* and the ip register is 4
C26_Witness ==
    /\ evt = "load" /\ log.lines = <<"#ip 1", "addi 0 1 0", "#ip 4", "seti -1 0 1">>
    /\ device.registers.ip = 4
    /\ device.instructions = <<[op_code |-> "Addi", inputs |-> <<0, 1>>, output |-> 0],
                               [op_code |-> "Seti", inputs |-> <<-1, 0>>, output |-> 1]>>

\* the line, split on single spaces, is the name of an op code followed by
\* three tokens that are integers
IsInstructionLine(line) ==
    LET pieces == Split(line)
    IN  /\ Len(pieces) >= 4
        /\ pieces[1] \in {OpCodeDisplay(op) : op \in OpCodes}
        /\ \A k \in 2..4 : ParseI64(pieces[k]) # None

\* C27: Instruction::decode succeeds only on a line that is an op code token
\* followed by three operand tokens that parse as i64; any other line (unknown
\* op code, an operand that is not an integer, fewer than three operands, a
\* blank line) fails to decode and makes the load fail.
C27_DecodeOnlyInstructions ==
    [][Did("load") \/ Did("load_fail") =>
        LET lines == log'.lines
        IN  /\ \A i \in 1..Len(lines) :
                  ~IsDirective(lines[i]) =>
                      (InstructionDecode(lines[i]) # None) = IsInstructionLine(lines[i])
            /\ (\E i \in 1..Len(lines) :
                   ~IsDirective(lines[i]) /\ ~IsInstructionLine(lines[i]))
               => Did("load_fail")]_vars

(***************************************************************************)
(* Properties of the parser                                                *)
(***************************************************************************)
\* the tokens of a text, with a token Bad at a character that starts none
RECURSIVE Lex(_)
Lex(s) ==
    With(TryNext(s), LAMBDA t :
        IF ~t.ok THEN <<[t |-> "Bad"]>>
        ELSE IF t.tok = None THEN <<>>
        ELSE <<t.tok[1]>> \o Lex(t.rest))

\* the token names a register
IsRegisterName(tok) ==
    tok.t = "String" /\ tok.s \in {"a", "b", "c", "d", "e", "f", "ip"}

\* the grammar: the tokens ts are one hook expression, `name ( args )` with the
\* arguments of the name, and nothing else
RECURSIVE IsExpression(_)
RECURSIVE IsExpressionList(_)
IsExpression(ts) ==
    /\ Len(ts) >= 4
    /\ ts[1].t = "String" /\ ts[2].t = "Open" /\ ts[Len(ts)].t = "Close"
    /\ LET name == ts[1].s
           args == SubSeq(ts, 3, Len(ts) - 1)
       IN  CASE name = "line" -> Len(args) = 1 /\ args[1].t = "Immediate"
             [] name \in {"read", "write", "unique"} ->
                   Len(args) = 1 /\ IsRegisterName(args[1])
             [] name \in {"gt", "lt", "eq", "gte", "lte"} ->
                   /\ Len(args) = 3 /\ IsRegisterName(args[1])
                   /\ args[2].t = "Comma" /\ args[3].t = "Immediate"
             [] name = "not" -> IsExpression(args)
             [] name = "all" -> IsExpressionList(args)
             [] OTHER -> FALSE

\* the tokens ts are one or more hook expressions with commas between them
IsExpressionList(ts) ==
    \/ IsExpression(ts)
    \/ \E k \in 2..(Len(ts) - 1) :
          /\ ts[k].t = "Comma"
          /\ IsExpression(SubSeq(ts, 1, k - 1))
          /\ IsExpressionList(SubSeq(ts, k + 1, Len(ts)))

\* C21: parse succeeds exactly on the inputs that are one complete hook
\* expression of the grammar: `break` with such an input adds the hook
\* (all(line(28), not(read(a))) adds All[Line(28), Not(Read(0))]), and with any
\* other input it fails with a parse error and adds no hook.
C21_ParseExactlyExpressions ==
    [][(Did("break") \/ Did("break_bad")) /\ Argument # None =>
          /\ Did("break") = IsExpression(Lex(Argument[1]))
          /\ Did("break_bad") =>
                hooks' = hooks /\ messages' = <<MessageError("bad condition")>>
          /\ Argument[1] = "all(line(28), not(read(a)))" =>
                hooks' = Append(hooks, HookAll(<<HookLine(28), HookNot(HookRead(0))>>))]_vars

\* C22: a hook that parse produced, written with Display for the same device
\* and parsed again, gives an equal hook: `break` with the text the list of
\* breakpoints shows for a hook adds a hook equal to it.
C22_DisplayParseRoundTrip ==
    [][Did("break") \/ Did("break_bad") =>
          \A i \in 1..Len(hooks) :
              Argument = Some(HookDisplay(hooks[i], device)) =>
                  Did("break") /\ hooks' = Append(hooks, hooks[i])]_vars

\* the hook All[Line(28), Not(Read(0))], shown as all(line(28), not(read(ip)))
\* on a device whose ip is register 0, was parsed again from that text
C22_Witness ==
    /\ evt = "break" /\ Len(hooks) = 2 /\ device.registers.ip = 0
    /\ hooks[1] = HookAll(<<HookLine(28), HookNot(HookRead(0))>>)
    /\ HookDisplay(hooks[1], device) = "all(line(28), not(read(ip)))"
    /\ hooks[2] = hooks[1]

(***************************************************************************)
(* Properties of the commands                                              *)
(***************************************************************************)
\* the next key is the '\n' that enters a command in Interactive mode
EnterPending ==
    /\ pc = "draw" /\ interactive
    /\ keys # <<>> /\ Head(keys) = Char("\n")
    /\ EnterLast # None

\* the command entered is a user error: an unknown command, a missing
\* argument, a bad numeric literal, a bad hook index, a hook parse error
UserError ==
    \/ Command \notin Commands
    \/ Command \in {"b", "break"} /\ Argument = None
    \/ Command \in {"b", "break"} /\ Argument # None /\ ~Parse(Argument[1], device).ok
    \/ Command = "load" /\ ArgumentPieces = <<>>
    \/ Command = "set" /\ Len(ArgumentPieces) < 2
    \/ Command = "set" /\ Len(ArgumentPieces) >= 2 /\ ParseI64(ArgumentPieces[2]) = None
    \/ /\ Command \in {"clear", "cl", "inspect"} /\ ArgumentPieces # <<>>
       /\ \/ ParseUsize(ArgumentPieces[1]) = None
          \/ ParseUsize(ArgumentPieces[1]) # None
             /\ ParseUsize(ArgumentPieces[1])[1] >= Len(hooks)

\* C28: a user error in Interactive mode pushes an error message and the loop
\* goes on in Interactive mode: the device, the list of hooks and the state of
\* the hooks are as before, no step is made and the loop is not left.
C28_UserErrorKeepsState ==
    [][EnterPending /\ UserError /\ ProgramStep =>
        /\ messages' # <<>> /\ messages'[Len(messages')].level = "Error"
        /\ device' = device /\ hooks' = hooks
        /\ interactive' /\ pc' = "draw"]_vars

\* `cl 5` was entered with one hook unique(a) that has seen the value 3: the
\* hook is as it was, and the error is in the messages
C28_Witness ==
    /\ evt = "clear_fail" /\ last = Some("cl 5") /\ pc = "draw" /\ interactive
    /\ hooks = <<[HookUnique(0) EXCEPT !.seen = {3}, !.last = Some(3)]>>
    /\ messages = <<MessageError("bad hook index")>>

\* a step of d reaches a register index outside 0..5: the ip register, or an
\* operand or the output of the instruction it executes
StepReachesBadRegister(d) ==
    \/ d.registers.ip \notin RegIndex
    \/ /\ d.registers.ip \in RegIndex /\ Executes(d)
       /\ \/ FirstIsRegister(Fetched(d).op_code) /\ Fetched(d).inputs[1] \notin RegIndex
          \/ SecondIsRegister(Fetched(d).op_code) /\ Fetched(d).inputs[2] \notin RegIndex
          \/ Fetched(d).output \notin RegIndex

\* the command entered is a `set` of a value to a register index outside 0..5
SetReachesBadRegister ==
    /\ Command = "set" /\ Len(ArgumentPieces) >= 2
    /\ ParseI64(ArgumentPieces[2]) # None
    /\ Register(device, Some(ArgumentPieces[1])).reg # None
    /\ Register(device, Some(ArgumentPieces[1])).reg[1] \notin RegIndex

\* C29: an access to a register index outside [0,5] fails with BadRegister. In
\* a step the error leaves the main loop, and no step and no pass over the
\* hooks follows; in the `set` command it is reported as a message and the
\* loop goes on; and the failing reg or reg_mut does not add the index to the
\* read set or the written set.
C29_BadRegister ==
    [][ProgramStep =>
        /\ pc # "fail"
        /\ pc = "step" /\ StepReachesBadRegister(device) => pc' = "fail"
        /\ EnterPending /\ SetReachesBadRegister =>
              /\ pc' = "draw" /\ interactive'
              /\ messages' # <<>> /\ messages'[Len(messages')].level = "Error"
        /\ device'.registers.read \subseteq RegIndex
        /\ device'.registers.written \subseteq RegIndex]_vars

\* the index the `clear` entered names: the piece after the command is the
\* numeral of an index of the list
ClearNames(i) == ArgumentPieces # <<>> /\ ArgumentPieces[1] = NatToString(i)

Polls(k, inter) ==
    /\ pc = "draw" /\ interactive = inter /\ (inter \/ ~device.halted)
    /\ keys # <<>> /\ Head(keys) = k

\* C31: the loop exits exactly on the key `q` taken in Free mode, on the
\* commands exit, quit and q of the Interactive mode, and on Ctrl-D taken in
\* the Interactive mode with an empty input; Ctrl-D with text in the input
\* does not exit, and after the exit no Device::step is made.
C31_ExitsExactly ==
    [][ProgramStep =>
        /\ pc # "exit"
        /\ (pc' = "exit") =
              \/ Polls(Char("q"), FALSE)
              \/ Entering({"exit", "quit", "q"})
              \/ Polls(Ctrl("d"), TRUE) /\ input = ""
        /\ Polls(Ctrl("d"), TRUE) /\ input # "" =>
              pc' = "draw" /\ input' = input /\ device' = device]_vars

\* Ctrl-D was taken in the Interactive mode with `q` in the input: the loop
\* goes on
C31_Witness ==
    /\ evt = "ctrl_d" /\ input = "q" /\ pc = "draw" /\ interactive


\* a tick of the Free branch of the draw loop
FreeTick == FreeHalted \/ FreeQuit \/ FreePause \/ FreePass

\* C32: the channel changes only by the input thread adding one key at its
\* end, which changes nothing else (no device, hook or terminal state), and by
\* the main loop taking the key at its front, so the keys arrive in the order
\* sent, none lost and none twice, and a character taken is the one the input
\* gets; a tick of the Free mode is possible with no key waiting, takes at most
\* one key, and taking `p` makes the mode Interactive with no hook evaluated
\* and no step on that tick.
C32_KeysInOrder ==
    [][/\ Len(keys') > Len(keys) =>
             /\ \E k \in ThreadKeys : keys' = Append(keys, k)
             /\ UNCHANGED <<device, interactive, hooks, input, last, messages, pc, evt,
                            tested, since, log>>
       /\ ProgramStep =>
             /\ keys' = keys \/ (keys # <<>> /\ keys' = Tail(keys))
             /\ evt' = "char" => /\ keys' = Tail(keys)
                                 /\ input' = input \o Head(keys).c
             /\ pc = "step" => keys' = keys
       /\ pc = "draw" /\ ~interactive => ENABLED FreeTick
       /\ ProgramStep /\ pc = "draw" /\ ~interactive /\ ~device.halted =>
             /\ keys = <<>> => keys' = <<>> /\ evt' = "pass"
             /\ keys # <<>> => keys' = Tail(keys)
             /\ keys # <<>> /\ Head(keys) = Char("p") =>
                   /\ interactive' /\ pc' = "draw"
                   /\ hooks' = hooks /\ tested' = tested /\ device' = device
                   /\ input' = input /\ last' = last]_vars

C32_Witness ==
    /\ evt = "free_pause" /\ interactive /\ pc = "draw"
    /\ keys = <<Char("q"), Char("\n")>> /\ hooks # <<>> /\ device.count > 0

\* C33: `continue` on a device that is not halted makes the mode Free and
\* returns to `run` with the device, the hooks and their last results as they
\* were; the next thing the program does is clear() and step(), before any
\* hook is tested, whatever the hooks say of the device the command saw; a
\* step that succeeds has executed one instruction (count is one more) or has
\* halted the device, and a step that fails ends the run.
C33_ContinueStepsFirst ==
    [][/\ Entering({"c", "continue"}) /\ ~device.halted /\ ProgramStep =>
             /\ Did("continue") /\ ~interactive' /\ pc' = "step"
             /\ device' = device /\ hooks' = hooks /\ tested' = tested
       /\ evt = "continue" /\ ProgramStep =>
             /\ Did("step") \/ Did("step_fail")
             /\ device' = Step(Clear(device)).d
             /\ hooks' = hooks /\ tested' = tested /\ ~interactive'
             /\ Did("step") =>
                   \/ device'.halted /\ device'.count = device.count
                   \/ ~device'.halted /\ device'.count = device.count + 1
             /\ Did("step_fail") => pc' = "fail"]_vars

\* C33: write(a) paused the free run after the first step; `continue` was
\* entered while it still held, and the second step was taken all the same
C33_Witness ==
    /\ evt = "step" /\ ~interactive /\ pc = "draw" /\ last = Some("c")
    /\ hooks = <<HookWrite(0)>> /\ tested = <<"Pause">>
    /\ device.count = 2 /\ ~device.halted /\ 0 \in device.registers.written

\* C34: in every state that load, reset, clear and successful steps lead to,
\* last_ip is absent exactly when count is 0, and exactly when unique is
\* empty; a last_ip that is present is in unique; every member of unique is an
\* index of the program; and unique has at most min(count, len(instructions))
\* members.
C34_CountsAgree ==
    pc # "fail" =>
        LET n == Len(device.instructions)
        IN  /\ (device.registers.last_ip = None) = (device.count = 0)
            /\ (device.count = 0) = (device.unique = {})
            /\ device.registers.last_ip # None =>
                  device.registers.last_ip[1] \in device.unique
            /\ \A i \in device.unique : i >= 0 /\ i < n
            /\ Cardinality(device.unique) <= Min(device.count, n)

\* C34: the loop `l` after three steps, two of them at line 0
C34_Witness ==
    /\ evt = "step" /\ pc = "draw" /\ log.lines = Files.l
    /\ device.count = 3 /\ device.unique = {0, 1}
    /\ device.registers.last_ip = Some(0) /\ ~device.halted

\* the line makes Device::load fail: a directive without an argument or with
\* one that is not an unsigned integer, or a line that does not decode
FailsLoad(line) ==
    IF IsDirective(line)
    THEN DirectiveArgument(line) = None \/ ParseUsize(DirectiveArgument(line)[1]) = None
    ELSE InstructionDecode(line) = None

\* C35: a load that fails at a line of the file does not restore the previous
\* program: it leaves the device reset (cells zero, tracking sets empty,
\* count 0, unique empty, last_ip absent, halted false), with the instructions
\* decoded before the failing line, and with the ip register of the last
\* directive before it, or the one it had when there is none; and a load,
\* whether it succeeds or fails, leaves the hooks and their seen sets as they
\* were.
C35_FailedLoadIsPartial ==
    [][/\ Did("load") \/ Did("load_fail") \/ Did("load_missing") =>
             hooks' = hooks /\ tested' = tested
       /\ Did("load_fail") /\ ArgumentPieces[1] \in DOMAIN Files =>
             LET lines == Files[ArgumentPieces[1]]
                 failing == CHOOSE i \in 1..Len(lines) :
                               /\ FailsLoad(lines[i])
                               /\ \A j \in 1..(i - 1) : ~FailsLoad(lines[j])
                 before == SubSeq(lines, 1, failing - 1)
                 last_directive == CHOOSE i \in Directives(before) :
                                      \A j \in Directives(before) : j <= i
             IN  /\ \E i \in 1..Len(lines) : FailsLoad(lines[i])
                 /\ device'.registers.registers = [i \in 1..6 |-> 0]
                 /\ device'.registers.read = {} /\ device'.registers.written = {}
                 /\ device'.registers.last_ip = None
                 /\ ~device'.halted /\ device'.count = 0 /\ device'.unique = {}
                 /\ device'.instructions = DecodedLines(before)
                 /\ Directives(before) = {} => device'.registers.ip = device.registers.ip
                 /\ Directives(before) # {} =>
                       DirectiveArgument(before[last_directive])
                          = Some(NatToString(device'.registers.ip))]_vars

\* C35: `load d` failed at its fourth line after the program `b` had run, with
\* a hook unique(a) that had seen the values 3 and 4
C35_Witness ==
    /\ evt = "load_fail" /\ last = Some("load d")
    /\ device.instructions = <<[op_code |-> "Seti", inputs |-> <<1, 0>>, output |-> 0]>>
    /\ device.registers.ip = 4 /\ device.count = 0 /\ ~device.halted
    /\ hooks = <<HookUniqueOf({3, 4}, Some(4), 0)>>

\* the number of instructions d executes before a step finds the ip outside
\* the program, when that happens within `fuel` steps; -1 when it does not, or
\* when a step fails
RECURSIVE StepsToHalt(_, _)
StepsToHalt(d, fuel) ==
    IF fuel = 0 THEN -1
    ELSE With(Step(Clear(d)), LAMBDA st :
         IF ~st.ok THEN -1
         ELSE IF st.d.halted THEN 0
         ELSE With(StepsToHalt(st.d, fuel - 1), LAMBDA n :
              IF n < 0 THEN -1 ELSE n + 1))

\* C36: in Free mode with no key pressed, when the program loaded drives the
\* ip outside the program after finitely many steps and no pass over the hooks
\* pauses, the loop eventually is Interactive with halted true, and count is
\* the number of instructions executed.
C36_FreeRunHalts ==
    /\ StepsToHalt(Load(DefaultDevice, log.lines).d, MaxCount) >= 0
    /\ [](\A i \in 1..Len(tested) : tested[i] # "Pause")
    => <>(/\ interactive /\ device.halted /\ pc = "draw"
          /\ device.count = StepsToHalt(Load(DefaultDevice, log.lines).d, MaxCount))

\* C36: the program `u` has executed its five instructions under hooks that
\* never paused, and the loop has made the mode Interactive
C36_Witness ==
    /\ evt = "free_halted" /\ interactive /\ device.halted /\ pc = "draw"
    /\ log.lines = Files.u /\ device.count = 5
    /\ hooks = <<HookLine(9)>> /\ tested = <<"None">>

\* C37: once halted is true, only the `reset` command and a load that reached
\* Device::load, whether it then succeeds or fails at a line, make it false; a
\* `set` leaves it true, also one that puts the index of an instruction into
\* the ip register, and `step` and `continue` are refused, with their message
\* and no step, as long as it is true.
C37_HaltedIsSticky ==
    [][device.halted /\ ProgramStep =>
        /\ ~device'.halted =>
              \/ Did("reset")
              \/ Did("load")
              \/ Did("load_fail") /\ ArgumentPieces[1] \in DOMAIN Files
        /\ Did("set") => device'.halted
        /\ ~Did("step") /\ ~Did("step_fail") /\ ~Did("continue") /\ ~Did("step_cmd")
        /\ Entering({"c", "continue"}) =>
              /\ Did("continue_refused") /\ device' = device /\ pc' = "draw"
              /\ interactive' = interactive
              /\ messages'[Len(messages')]
                    = MessageError("can't continue, device is halted!")
        /\ Entering({"s", "step"}) =>
              /\ Did("step_refused") /\ device' = device /\ pc' = "draw"
              /\ messages'[Len(messages')] = MessageError("can't step, device is halted!")]_vars

\* C37: `continue` was refused on the halted program `b` after `set ip 0` had
\* put the index of its first instruction into the ip register
C37_Witness ==
    /\ evt = "continue_refused" /\ device.halted /\ interactive /\ pc = "draw"
    /\ device.instructions = ProgramB /\ FetchIp(device) = 0 /\ Executes(device)
    /\ device.count = 2 /\ device.registers.written = {5}

\* C38, as the claim states it: every pass over the hooks is preceded by a
\* successful step since the device was created, reset or loaded and since the
\* pass before it, whether the terminal starts Interactive or Free.
C38_PassOnlyAfterStep ==
    [][Did("pass") \/ Did("pass_fail") => since.steps >= 1]_vars

\* C38: a pass over the hooks comes right after a successful step that
\* executed an instruction, and so after a step since the device was created,
\* reset or loaded and since the pass before it, with one exception: a
\* terminal that starts in Free mode makes its first pass on the first draw,
\* against the device as it was loaded, before any step.
C38_PassFollowsStep ==
    [][Did("pass") \/ Did("pass_fail") =>
        \/ /\ evt = "step" /\ since.steps >= 1
           /\ device.count >= 1 /\ device.registers.last_ip # None
        \/ /\ evt = "init" /\ ~interactive
           /\ device.count = 0 /\ device.registers.last_ip = None]_vars

\* C38: the terminal started in Free mode with unique(a), which paused on the
\* first draw at the value 0 of the device that has not stepped
C38_Witness ==
    /\ evt = "pass" /\ interactive /\ pc = "draw"
    /\ device.count = 0 /\ device.registers.last_ip = None
    /\ hooks = <<HookUniqueOf({0}, Some(0), 0)>> /\ tested = <<"Pause">>
====
